---- MODULE Spec2Model ----
(***************************************************************************)
(* A model of the rendering pipeline of saba_core: the HTML tree           *)
(* constructor (renderer/html/parser.rs), the DOM accessors                *)
(* (renderer/dom/api.rs) and the layout tree with its size, position and   *)
(* paint passes (renderer/layout/layout_view.rs, layout_object.rs).        *)
(*                                                                         *)
(* DOM nodes live in the sequence dom; a node is designated by its index,  *)
(* NIL (0) is the absent link (Option::None, or a Weak that was never      *)
(* set).  Node 1 is the Document that Window::new creates.                 *)
(***************************************************************************)
EXTENDS Integers, Sequences, FiniteSets, TLC

VARIABLES
    pc,                      \* where the pipeline stands
    mode,                    \* HtmlParser.mode
    original_insertion_mode, \* HtmlParser.original_insertion_mode
    stack_of_open_elements,  \* HtmlParser.stack_of_open_elements
    dom,                     \* the nodes owned by HtmlParser.window
    token,                   \* the local `token` of construct_tree
    consumed,                \* how many tokens HtmlTokenizer::next has handed out
    chars_only,              \* whether each of them was a Char (or the end)
    cssom,                   \* the StyleSheet handed to LayoutView::new
    layout,                  \* the LayoutObjects of the LayoutView, by DOM node
    root,                    \* LayoutView.root
    display_items,           \* Page.display_items
    css_parser,              \* the style content and the tokens CssParser reads
    ui,                      \* WasabiUI: input_url, input_mode, the key read
    http,                    \* the locals of handle_url
    js                       \* JsRuntime: the chain of Environments

vars == <<pc, mode, original_insertion_mode, stack_of_open_elements, dom,
          token, consumed, chars_only, cssom, layout, root, display_items,
          css_parser, ui, http, js>>

NIL == 0

\* Option of a record: None is the empty set, Some(v) the set {v}
None == {}
Some(v) == {v}
Unwrap(o) == CHOOSE v \in o : TRUE

\* `let x = v; F(x)`: v is evaluated once and F sees its value
Bind(v, F(_)) == CHOOSE r \in {F(x) : x \in {v}} : TRUE

----------------------------------------------------------------------------
(* Bounds of the model.                                                    *)

\* the longest token stream the tokenizer hands to construct_tree
MaxTokens == 4
\* the longest token stream of body content (specification SpecBody)
MaxBodyTokens == 6
\* the longest style sheet of the cascade specification (SpecCascade)
MaxRules == 2

----------------------------------------------------------------------------
(* HTML tokens (HtmlToken): StartTag, EndTag, Char, Eof.                   *)

StartTag(tag, attributes) ==
    [type |-> "StartTag", tag |-> tag, c |-> "", attributes |-> attributes]
EndTag(tag) == [type |-> "EndTag", tag |-> tag, c |-> "", attributes |-> <<>>]
Char(c) == [type |-> "Char", tag |-> "", c |-> c, attributes |-> <<>>]
Eof == [type |-> "Eof", tag |-> "", c |-> "", attributes |-> <<>>]
\* Option::None: what HtmlTokenizer::next returns once the input is exhausted
\* (and the value of `token` before the first call)
NoToken == [type |-> "None", tag |-> "", c |-> "", attributes |-> <<>>]

Attribute(name, value) == [name |-> name, value |-> value]

\* tag names of the input: the tags the parser knows, and one it does not
TagNames == {"html", "head", "style", "script", "body", "p", "h1", "a", "div"}
\* ElementKind::from_str succeeds on these
ElementKinds ==
    {"html", "head", "style", "script", "body", "p", "h1", "h2", "a"}

\* the token alphabet of specification Spec
Tokens ==
    {Char(" "), Char("x"), Eof}
        \cup {StartTag(t, <<>>) : t \in TagNames}
        \cup {EndTag(t) : t \in TagNames}

\* the token alphabet of specification SpecBody: the content of a body
BodyTokens ==
    {Char("x"), EndTag("p"), EndTag("a"),
     StartTag("p", <<>>), StartTag("a", <<>>),
     StartTag("p", <<Attribute("class", "hidden")>>),
     StartTag("a", <<Attribute("class", "hidden")>>)}

----------------------------------------------------------------------------
(* DOM nodes (Node, NodeKind, Element).                                    *)

Node(kind, ekind, attributes, text) ==
    [kind |-> kind, ekind |-> ekind, attributes |-> attributes, text |-> text,
     parent |-> NIL, first_child |-> NIL, last_child |-> NIL,
     previous_sibling |-> NIL, next_sibling |-> NIL]

\* Window::new: the window owns a fresh Document node
WindowNew == <<Node("Document", "", <<>>, <<>>)>>
Document == 1

\* Node::element_kind: None for Document and Text
element_kind(d, n) == IF d[n].kind = "Element" THEN d[n].ekind ELSE "None"

Last(s) == s[Len(s)]
Front(s) == SubSeq(s, 1, Len(s) - 1)

\* HtmlParser::contain_in_stack
contain_in_stack(d, stack, kind) ==
    \E i \in 1..Len(stack) : element_kind(d, stack[i]) = kind

\* pop_until removing the topmost element of the kind alone and leaving the
\* entries above it
pop_until_leaving_descendants(d, stack, kind) ==
    LET found == {i \in 1..Len(stack) : element_kind(d, stack[i]) = kind}
    IN IF found = {} THEN <<>>
       ELSE LET top == CHOOSE i \in found : \A j \in found : j <= i
            IN SubSeq(stack, 1, top - 1) \o SubSeq(stack, top + 1, Len(stack))

\* the loop of HtmlParser::pop_until: pop until an element of the kind is popped
RECURSIVE pop_until(_, _, _)
pop_until(d, stack, kind) ==
    IF stack = <<>> THEN <<>>
    ELSE IF element_kind(d, Last(stack)) = kind THEN Front(stack)
    ELSE pop_until(d, Front(stack), kind)

\* HtmlParser::pop_current_node: does it pop (true) or leave the stack (false)
pop_current_node(d, stack, kind) ==
    stack # <<>> /\ element_kind(d, Last(stack)) = kind

\* HtmlParser::create_char
create_char(c) == Node("Text", "", <<>>, <<c>>)

\* HtmlParser::create_element
create_element(tag, attributes) == Node("Element", tag, attributes, <<>>)

\* insert_char opening a Text node for every character that it inserts
insert_char_always_new(d, stack, c) ==
    IF stack = <<>> THEN [dom |-> d, stack |-> stack]
    ELSE
        LET current == IF d[Last(stack)].kind = "Text"
                       THEN d[Last(stack)].parent ELSE Last(stack)
            new == Len(d) + 1
            d1 == Append(d, create_char(c))
            d2 == IF d[current].first_child # NIL
                  THEN [d1 EXCEPT
                           ![d[current].first_child].next_sibling = new]
                  ELSE [d1 EXCEPT ![current].first_child = new]
            d3 == [d2 EXCEPT ![current].last_child = new,
                             ![new].parent = current]
        IN IF c = "\n" \/ c = " " THEN [dom |-> d, stack |-> stack]
           ELSE [dom |-> d3, stack |-> Append(Front(stack), new)]

\* insert_char without the return on a space or newline
insert_char_keeps_whitespace(d, stack, c) ==
    IF stack = <<>> THEN [dom |-> d, stack |-> stack]
    ELSE
        LET current == Last(stack) IN
        IF d[current].kind = "Text"
        THEN [dom |-> [d EXCEPT ![current].text = Append(@, c)],
              stack |-> stack]
        ELSE
            LET new == Len(d) + 1
                d1 == Append(d, create_char(c))
                d2 == IF d[current].first_child # NIL
                      THEN [d1 EXCEPT
                               ![d[current].first_child].next_sibling = new]
                      ELSE [d1 EXCEPT ![current].first_child = new]
                d3 == [d2 EXCEPT ![current].last_child = new,
                                 ![new].parent = current]
            IN [dom |-> d3, stack |-> Append(stack, new)]

\* HtmlParser::insert_char, on the pair (dom, stack)
insert_char(d, stack, c) ==
    IF stack = <<>> THEN [dom |-> d, stack |-> stack]
    ELSE
        LET current == Last(stack) IN
        IF d[current].kind = "Text"
        THEN [dom |-> [d EXCEPT ![current].text = Append(@, c)],
              stack |-> stack]
        ELSE IF c = "\n" \/ c = " " THEN [dom |-> d, stack |-> stack]
        ELSE
            LET new == Len(d) + 1
                d1 == Append(d, create_char(c))
                d2 == IF d[current].first_child # NIL
                      THEN [d1 EXCEPT
                               ![d[current].first_child].next_sibling = new]
                      ELSE [d1 EXCEPT ![current].first_child = new]
                d3 == [d2 EXCEPT ![current].last_child = new,
                                 ![new].parent = current]
            IN [dom |-> d3, stack |-> Append(stack, new)]

\* the walk of insert_element to the youngest child of a node
RECURSIVE last_sibling_of(_, _)
last_sibling_of(d, n) ==
    IF d[n].next_sibling # NIL THEN last_sibling_of(d, d[n].next_sibling)
    ELSE n

\* insert_element linking the new node before the children of current
insert_element_as_first(d, stack, tag, attributes) ==
    LET current == IF stack # <<>> THEN Last(stack) ELSE Document
        new == Len(d) + 1
        d1 == Append(d, create_element(tag, attributes))
        d2 == IF d[current].first_child # NIL
              THEN [d1 EXCEPT
                       ![new].next_sibling = d[current].first_child,
                       ![d[current].first_child].previous_sibling = new,
                       ![current].first_child = new]
              ELSE [d1 EXCEPT ![current].first_child = new,
                              ![current].last_child = new]
        d3 == [d2 EXCEPT ![new].parent = current]
    IN [dom |-> d3, stack |-> Append(stack, new)]

\* HtmlParser::insert_element, on the pair (dom, stack)
insert_element(d, stack, tag, attributes) ==
    LET current == IF stack # <<>> THEN Last(stack) ELSE Document
        new == Len(d) + 1
        d1 == Append(d, create_element(tag, attributes))
        d2 == IF d[current].first_child # NIL
              THEN LET last_sibling ==
                           last_sibling_of(d, d[current].first_child)
                   IN [d1 EXCEPT ![last_sibling].next_sibling = new,
                                 ![new].previous_sibling = last_sibling]
              ELSE [d1 EXCEPT ![current].first_child = new]
        d3 == [d2 EXCEPT ![current].last_child = new, ![new].parent = current]
    IN [dom |-> d3, stack |-> Append(stack, new)]

----------------------------------------------------------------------------
(* HtmlParser::construct_tree.  One action per arm of `match self.mode`:   *)
(* an action is one turn of the `while token.is_some()` loop.  T is the    *)
(* token alphabet of the input and B the length of the longest input.      *)

\* self.t.next(): any token while the input lasts (an empty input gives None
\* at once), None afterwards
NextToken(T, B) ==
    IF consumed >= B THEN {NoToken}
    ELSE IF consumed = 0 THEN T \cup {NoToken}
    ELSE T

\* token = self.t.next()
Advance(T, B) ==
    /\ \E t \in NextToken(T, B) : token' = t
    /\ consumed' = IF consumed < B THEN consumed + 1 ELSE consumed
    /\ chars_only' = (chars_only /\ token'.type \in {"Char", "Eof", "None"})

\* token = self.t.next() and the test of `while token.is_some()` that follows
Consume(T, B) ==
    /\ Advance(T, B)
    /\ pc' = IF token'.type = "None" THEN "parsed" ELSE "parsing"

\* `continue` without a call of self.t.next(): the token is dispatched again
Redispatch == UNCHANGED <<pc, token, consumed, chars_only>>

\* construct_tree touches neither the page nor the application around it
LayoutUnchanged ==
    UNCHANGED <<cssom, layout, root, display_items, css_parser, ui, http, js>>

IsEnd(t) == t.type = "Eof" \/ t.type = "None"
IsSpace(t) == t.type = "Char" /\ (t.c = " " \/ t.c = "\n")

\* return self.window.clone()
Return ==
    /\ pc' = "parsed"
    /\ UNCHANGED <<mode, original_insertion_mode, stack_of_open_elements,
                   dom, token, consumed, chars_only>>

\* a failed assert! or expect: the thread panics
Panic ==
    /\ pc' = "panicked"
    /\ UNCHANGED <<mode, original_insertion_mode, stack_of_open_elements,
                   dom, token, consumed, chars_only>>

\* self.insert_element(tag, attributes)
DoInsertElement(tag, attributes) ==
    LET r == insert_element(dom, stack_of_open_elements, tag, attributes)
    IN /\ dom' = r.dom
       /\ stack_of_open_elements' = r.stack

\* self.insert_char(c)
DoInsertChar(c) ==
    LET r == insert_char(dom, stack_of_open_elements, c)
    IN /\ dom' = r.dom
       /\ stack_of_open_elements' = r.stack

\* self.pop_until(kind), once its assert! has passed
DoPopUntil(kind) ==
    /\ stack_of_open_elements' = pop_until(dom, stack_of_open_elements, kind)
    /\ UNCHANGED dom

\* the assert! of pop_until
PopUntilAsserts(kind) == contain_in_stack(dom, stack_of_open_elements, kind)

\* let mut token = self.t.next(); the loop is entered if it is Some
ConstructTree(T, B) ==
    /\ pc = "new"
    /\ Consume(T, B)
    /\ UNCHANGED <<mode, original_insertion_mode, stack_of_open_elements, dom>>
    /\ LayoutUnchanged

Parsing(m) == pc = "parsing" /\ mode = m

\* InsertionMode::Initial without the arm that skips a Char token
InitialKeepsChars(T, B) ==
    /\ Parsing("Initial")
    /\ LayoutUnchanged
    /\ mode' = "BeforeHtml"
    /\ Redispatch
    /\ UNCHANGED <<original_insertion_mode, stack_of_open_elements, dom>>

\* InsertionMode::Initial
Initial(T, B) ==
    /\ Parsing("Initial")
    /\ LayoutUnchanged
    /\ IF token.type = "Char"
       THEN /\ Consume(T, B)
            /\ UNCHANGED <<mode, original_insertion_mode,
                           stack_of_open_elements, dom>>
       ELSE /\ mode' = "BeforeHtml"
            /\ Redispatch
            /\ UNCHANGED <<original_insertion_mode,
                           stack_of_open_elements, dom>>

\* InsertionMode::BeforeHtml
BeforeHtml(T, B) ==
    /\ Parsing("BeforeHtml")
    /\ LayoutUnchanged
    /\ UNCHANGED original_insertion_mode
    /\ IF IsSpace(token)
       THEN /\ Consume(T, B)
            /\ UNCHANGED <<mode, stack_of_open_elements, dom>>
       ELSE IF token.type = "StartTag" /\ token.tag = "html"
       THEN /\ DoInsertElement(token.tag, token.attributes)
            /\ mode' = "BeforeHead"
            /\ Consume(T, B)
       ELSE IF token.type = "EndTag"
               /\ (token.tag # "head" \/ token.tag # "body"
                   \/ token.tag # "html" \/ token.tag # "br")
       THEN /\ Consume(T, B)
            /\ UNCHANGED <<mode, stack_of_open_elements, dom>>
       ELSE IF IsEnd(token)
       THEN Return
       ELSE /\ DoInsertElement("html", <<>>)
            /\ mode' = "BeforeHead"
            /\ Redispatch

\* InsertionMode::BeforeHead
BeforeHead(T, B) ==
    /\ Parsing("BeforeHead")
    /\ LayoutUnchanged
    /\ UNCHANGED original_insertion_mode
    /\ IF IsSpace(token)
       THEN /\ Consume(T, B)
            /\ UNCHANGED <<mode, stack_of_open_elements, dom>>
       ELSE IF token.type = "StartTag" /\ token.tag = "head"
       THEN /\ DoInsertElement(token.tag, token.attributes)
            /\ mode' = "InHead"
            /\ Consume(T, B)
       ELSE IF IsEnd(token)
       THEN Return
       ELSE /\ DoInsertElement("head", <<>>)
            /\ mode' = "InHead"
            /\ Redispatch

\* InsertionMode::InHead
InHead(T, B) ==
    /\ Parsing("InHead")
    /\ LayoutUnchanged
    /\ IF IsSpace(token)
       THEN /\ DoInsertChar(token.c)
            /\ Consume(T, B)
            /\ UNCHANGED <<mode, original_insertion_mode>>
       ELSE IF token.type = "StartTag"
               /\ (token.tag = "style" \/ token.tag = "script")
       THEN /\ DoInsertElement(token.tag, token.attributes)
            /\ original_insertion_mode' = mode
            /\ mode' = "Text"
            /\ Consume(T, B)
       ELSE IF token.type = "StartTag"
               /\ (token.tag = "body" \/ token.tag \in ElementKinds)
       THEN IF PopUntilAsserts("head")
            THEN /\ DoPopUntil("head")
                 /\ mode' = "AfterHead"
                 /\ Redispatch
                 /\ UNCHANGED original_insertion_mode
            ELSE Panic
       ELSE IF token.type = "EndTag" /\ token.tag = "head"
       THEN IF PopUntilAsserts("head")
            THEN /\ mode' = "AfterHead"
                 /\ Consume(T, B)
                 /\ DoPopUntil("head")
                 /\ UNCHANGED original_insertion_mode
            ELSE \* the token is fetched and the mode set before the assert!
                 /\ mode' = "AfterHead"
                 /\ Advance(T, B)
                 /\ pc' = "panicked"
                 /\ UNCHANGED <<original_insertion_mode,
                                stack_of_open_elements, dom>>
       ELSE IF IsEnd(token)
       THEN Return
       ELSE /\ Consume(T, B)
            /\ UNCHANGED <<mode, original_insertion_mode,
                           stack_of_open_elements, dom>>

\* AfterHead staying in its mode after the insertion of a <body> start tag
AfterHeadKeepsMode(T, B) ==
    /\ Parsing("AfterHead")
    /\ LayoutUnchanged
    /\ UNCHANGED original_insertion_mode
    /\ IF IsSpace(token)
       THEN /\ DoInsertChar(token.c)
            /\ Consume(T, B)
            /\ UNCHANGED mode
       ELSE IF token.type = "StartTag" /\ token.tag = "body"
       THEN /\ DoInsertElement(token.tag, token.attributes)
            /\ Consume(T, B)
            /\ UNCHANGED mode
       ELSE IF IsEnd(token)
       THEN Return
       ELSE /\ DoInsertElement("body", <<>>)
            /\ mode' = "InBody"
            /\ Redispatch

\* InsertionMode::AfterHead
AfterHead(T, B) ==
    /\ Parsing("AfterHead")
    /\ LayoutUnchanged
    /\ UNCHANGED original_insertion_mode
    /\ IF IsSpace(token)
       THEN /\ DoInsertChar(token.c)
            /\ Consume(T, B)
            /\ UNCHANGED mode
       ELSE IF token.type = "StartTag" /\ token.tag = "body"
       THEN /\ DoInsertElement(token.tag, token.attributes)
            /\ Consume(T, B)
            /\ mode' = "InBody"
       ELSE IF IsEnd(token)
       THEN Return
       ELSE /\ DoInsertElement("body", <<>>)
            /\ mode' = "InBody"
            /\ Redispatch

\* InsertionMode::InBody
InBody(T, B) ==
    /\ Parsing("InBody")
    /\ LayoutUnchanged
    /\ UNCHANGED original_insertion_mode
    /\ IF token.type = "StartTag"
       THEN IF token.tag \in {"p", "h1", "h2", "a"}
            THEN /\ DoInsertElement(token.tag, token.attributes)
                 /\ Consume(T, B)
                 /\ UNCHANGED mode
            ELSE /\ Consume(T, B)
                 /\ UNCHANGED <<mode, stack_of_open_elements, dom>>
       ELSE IF token.type = "EndTag"
       THEN IF token.tag = "body"
            THEN /\ mode' = "AfterBody"
                 /\ Consume(T, B)
                 /\ IF ~contain_in_stack(dom, stack_of_open_elements, "body")
                    THEN UNCHANGED <<stack_of_open_elements, dom>>
                    ELSE DoPopUntil("body")
            ELSE IF token.tag = "html"
            THEN IF pop_current_node(dom, stack_of_open_elements, "body")
                 THEN IF pop_current_node(
                             dom, Front(stack_of_open_elements), "html")
                      THEN /\ mode' = "AfterBody"
                           /\ stack_of_open_elements' =
                                  Front(Front(stack_of_open_elements))
                           /\ Redispatch
                           /\ UNCHANGED dom
                      ELSE \* assert!(self.pop_current_node(Html)) fails
                           /\ mode' = "AfterBody"
                           /\ stack_of_open_elements' =
                                  Front(stack_of_open_elements)
                           /\ pc' = "panicked"
                           /\ UNCHANGED <<dom, token, consumed, chars_only>>
                 ELSE /\ Consume(T, B)
                      /\ UNCHANGED <<mode, stack_of_open_elements, dom>>
            ELSE IF token.tag \in {"p", "h1", "h2", "a"}
            THEN IF PopUntilAsserts(token.tag)
                 THEN /\ Consume(T, B)
                      /\ DoPopUntil(token.tag)
                      /\ UNCHANGED mode
                 ELSE \* the token is fetched before the assert! of pop_until
                      /\ Advance(T, B)
                      /\ pc' = "panicked"
                      /\ UNCHANGED <<mode, stack_of_open_elements, dom>>
            ELSE /\ Consume(T, B)
                 /\ UNCHANGED <<mode, stack_of_open_elements, dom>>
       ELSE IF IsEnd(token)
       THEN Return
       ELSE \* Some(HtmlToken::Char(c))
            /\ DoInsertChar(token.c)
            /\ Consume(T, B)
            /\ UNCHANGED mode

\* InsertionMode::Text without the assignment that restores the mode after
\* the `_ => {}` arm
TextKeepsMode(T, B) ==
    /\ Parsing("Text")
    /\ LayoutUnchanged
    /\ UNCHANGED original_insertion_mode
    /\ IF IsEnd(token)
       THEN Return
       ELSE IF token.type = "EndTag"
       THEN IF token.tag = "style" /\ ~PopUntilAsserts("style")
            THEN Panic
            ELSE IF token.tag = "script" /\ ~PopUntilAsserts("script")
            THEN Panic
            ELSE /\ stack_of_open_elements' =
                        IF token.tag \in {"style", "script"}
                        THEN pop_until(dom, stack_of_open_elements, token.tag)
                        ELSE stack_of_open_elements
                 /\ mode' = original_insertion_mode
                 /\ Consume(T, B)
                 /\ UNCHANGED dom
       ELSE IF token.type = "Char"
       THEN /\ DoInsertChar(token.c)
            /\ Consume(T, B)
            /\ UNCHANGED mode
       ELSE /\ Redispatch
            /\ UNCHANGED <<mode, stack_of_open_elements, dom>>

\* InsertionMode::Text with an EndTag arm for style and script only: any
\* other end tag falls through to the assignment that restores the mode
TextKeepsEndTags(T, B) ==
    /\ Parsing("Text")
    /\ LayoutUnchanged
    /\ UNCHANGED original_insertion_mode
    /\ IF IsEnd(token)
       THEN Return
       ELSE IF token.type = "EndTag" /\ token.tag \in {"style", "script"}
       THEN IF ~PopUntilAsserts(token.tag)
            THEN Panic
            ELSE /\ stack_of_open_elements' =
                        pop_until(dom, stack_of_open_elements, token.tag)
                 /\ mode' = original_insertion_mode
                 /\ Consume(T, B)
                 /\ UNCHANGED dom
       ELSE IF token.type = "Char"
       THEN /\ DoInsertChar(token.c)
            /\ Consume(T, B)
            /\ UNCHANGED mode
       ELSE /\ mode' = original_insertion_mode
            /\ Redispatch
            /\ UNCHANGED <<stack_of_open_elements, dom>>

\* InsertionMode::Text
Text(T, B) ==
    /\ Parsing("Text")
    /\ LayoutUnchanged
    /\ UNCHANGED original_insertion_mode
    /\ IF IsEnd(token)
       THEN Return
       ELSE IF token.type = "EndTag"
       THEN IF token.tag = "style" /\ ~PopUntilAsserts("style")
            THEN Panic
            ELSE IF token.tag = "script" /\ ~PopUntilAsserts("script")
            THEN Panic
            ELSE /\ stack_of_open_elements' =
                        IF token.tag \in {"style", "script"}
                        THEN pop_until(dom, stack_of_open_elements, token.tag)
                        ELSE stack_of_open_elements
                 /\ mode' = original_insertion_mode
                 /\ Consume(T, B)
                 /\ UNCHANGED dom
       ELSE IF token.type = "Char"
       THEN /\ DoInsertChar(token.c)
            /\ Consume(T, B)
            /\ UNCHANGED mode
       ELSE /\ mode' = original_insertion_mode
            /\ Redispatch
            /\ UNCHANGED <<stack_of_open_elements, dom>>

\* InsertionMode::AfterBody
AfterBody(T, B) ==
    /\ Parsing("AfterBody")
    /\ LayoutUnchanged
    /\ UNCHANGED <<original_insertion_mode, stack_of_open_elements, dom>>
    /\ IF token.type = "Char"
       THEN Consume(T, B) /\ UNCHANGED mode
       ELSE IF token.type = "EndTag" /\ token.tag = "html"
       THEN mode' = "AfterAfterBody" /\ Consume(T, B)
       ELSE IF IsEnd(token)
       THEN pc' = "parsed" /\ UNCHANGED <<mode, token, consumed, chars_only>>
       ELSE mode' = "InBody" /\ Redispatch

\* InsertionMode::AfterAfterBody
AfterAfterBody(T, B) ==
    /\ Parsing("AfterAfterBody")
    /\ LayoutUnchanged
    /\ UNCHANGED <<original_insertion_mode, stack_of_open_elements, dom>>
    /\ IF token.type = "Char"
       THEN Consume(T, B) /\ UNCHANGED mode
       ELSE IF IsEnd(token)
       THEN pc' = "parsed" /\ UNCHANGED <<mode, token, consumed, chars_only>>
       ELSE mode' = "InBody" /\ Redispatch

\* HtmlParser::construct_tree over the alphabet T, for inputs of at most B tokens
Parse(T, B) ==
    \/ ConstructTree(T, B)
    \/ Initial(T, B)
    \/ BeforeHtml(T, B)
    \/ BeforeHead(T, B)
    \/ InHead(T, B)
    \/ AfterHead(T, B)
    \/ InBody(T, B)
    \/ Text(T, B)
    \/ AfterBody(T, B)
    \/ AfterAfterBody(T, B)

----------------------------------------------------------------------------
(* The DOM accessor of LayoutView::new (renderer/dom/api.rs).              *)

\* get_target_element_node: the node itself, else the first hit in the
\* first-child subtree, else the first hit in the next-sibling subtree
RECURSIVE get_target_element_node(_, _, _)
get_target_element_node(d, node, kind) ==
    IF node = NIL THEN NIL
    ELSE IF d[node].kind = "Element" /\ d[node].ekind = kind THEN node
    ELSE Bind(get_target_element_node(d, d[node].first_child, kind),
              LAMBDA result1 :
         Bind(get_target_element_node(d, d[node].next_sibling, kind),
              LAMBDA result2 :
              IF result1 = NIL /\ result2 = NIL THEN NIL
              ELSE IF result1 = NIL THEN result2
              ELSE result1))

----------------------------------------------------------------------------
(* The style sheet (renderer/css/cssom.rs): rules of a selector and        *)
(* declarations; the value of a declaration is one CSS token.              *)

Selector(kind, name) == [kind |-> kind, name |-> name]
UnknownSelector == Selector("UnknownSelector", <<>>)
ComponentValue(type, v) == [type |-> type, v |-> v]
Ident(v) == ComponentValue("Ident", v)
HashToken(v) == ComponentValue("HashToken", v)
Number(v) == ComponentValue("Number", v)
Declaration(property, value) == [property |-> property, value |-> value]
QualifiedRule(selector, declarations) ==
    [selector |-> selector, declarations |-> declarations]

----------------------------------------------------------------------------
(* ComputedStyle (renderer/layout/computed_style.rs).  A field that no     *)
(* declaration has set yet is UNSET (Option::None).                        *)

UNSET == "unset"

\* ComputedStyle::new
ComputedStyleNew ==
    [background_color |-> UNSET, color |-> UNSET, display |-> UNSET,
     font_size |-> UNSET, text_decoration |-> UNSET]

\* the colour names Color::from_name knows, and the codes Color::from_code knows
ColorNames == {"black", "white", "red", "blue"}
ColorCodes == {"#000000", "#ffffff", "#ff0000", "#0000ff"}
ColorOfCode(code) ==
    CASE code = "#000000" -> "black"
      [] code = "#ffffff" -> "white"
      [] code = "#ff0000" -> "red"
      [] code = "#0000ff" -> "blue"

\* Color::from_name, with the fallback the caller takes on Err
from_name(name, fallback) == IF name \in ColorNames THEN name ELSE fallback
\* Color::from_code, with the fallback the caller takes on Err
from_code(code, fallback) ==
    IF code \in ColorCodes THEN ColorOfCode(code) ELSE fallback
\* DisplayType::from_str, with the fallback the caller takes on Err
display_from_str(s) ==
    CASE s = "block" -> "Block"
      [] s = "inline" -> "Inline"
      [] s = "none" -> "DisplayNone"
      [] OTHER -> "DisplayNone"

\* Element::is_block_element
is_block_element(ekind) == ekind \in {"body", "h1", "h2", "p"}

\* DisplayType::default
DisplayDefault(d, node) ==
    IF d[node].kind = "Document" THEN "Block"
    ELSE IF d[node].kind = "Element"
    THEN IF is_block_element(d[node].ekind) THEN "Block" ELSE "Inline"
    ELSE "Inline"

\* FontSize::default
FontSizeDefault(d, node) ==
    IF d[node].kind = "Element" /\ d[node].ekind = "h1" THEN "XXLarge"
    ELSE IF d[node].kind = "Element" /\ d[node].ekind = "h2" THEN "XLarge"
    ELSE "Medium"

\* TextDecoration::default
TextDecorationDefault(d, node) ==
    IF d[node].kind = "Element" /\ d[node].ekind = "a" THEN "Underline"
    ELSE "None"

\* ComputedStyle::defaulting: an unset field inherits the parent's value when
\* that value is not the initial one, and takes the node's default otherwise.
\* parent_style is an Option.
defaulting(style, d, node, parent_style) ==
    LET inherit(field, initial) ==
            IF style[field] = UNSET /\ parent_style # None
               /\ Unwrap(parent_style)[field] # initial
            THEN Unwrap(parent_style)[field]
            ELSE style[field]
        s1 == [background_color |-> inherit("background_color", "white"),
               color |-> inherit("color", "black"),
               display |-> style.display,
               font_size |-> inherit("font_size", "Medium"),
               text_decoration |-> inherit("text_decoration", "None")]
        fill(field, default) ==
            IF s1[field] = UNSET THEN default ELSE s1[field]
    IN [background_color |-> fill("background_color", "white"),
        color |-> fill("color", "black"),
        display |-> fill("display", DisplayDefault(d, node)),
        font_size |-> fill("font_size", FontSizeDefault(d, node)),
        text_decoration |->
            fill("text_decoration", TextDecorationDefault(d, node))]

----------------------------------------------------------------------------
(* LayoutObject (renderer/layout/layout_object.rs).  A layout object is    *)
(* designated by the DOM node it was created for: in the tree that         *)
(* build_layout_tree returns, a DOM node has at most one layout object.    *)

LayoutPoint(x, y) == [x |-> x, y |-> y]
LayoutSize(width, height) == [width |-> width, height |-> height]

\* LayoutObject::new
LayoutObjectNew(node, parent_obj) ==
    [kind |-> "Block", node |-> node, first_child |-> NIL,
     next_sibling |-> NIL, parent |-> parent_obj, style |-> ComputedStyleNew,
     point |-> LayoutPoint(0, 0), size |-> LayoutSize(0, 0)]

\* LayoutObject::is_node_selected
is_node_selected(d, node, selector) ==
    IF d[node].kind = "Element"
    THEN CASE selector.kind = "IdSelector" ->
                  \E i \in 1..Len(d[node].attributes) :
                      /\ d[node].attributes[i].name = "id"
                      /\ d[node].attributes[i].value = selector.name
           [] selector.kind = "ClassSelector" ->
                  \E i \in 1..Len(d[node].attributes) :
                      /\ d[node].attributes[i].name = "class"
                      /\ d[node].attributes[i].value = selector.name
           [] selector.kind = "TypeSelector" -> d[node].ekind = selector.name
           [] OTHER -> FALSE
    ELSE FALSE

\* one turn of the loop of LayoutObject::cascading_style
cascade_declaration(style, declaration) ==
    LET value == declaration.value IN
    CASE declaration.property = "background-color" ->
             IF value.type = "Ident"
             THEN [style EXCEPT
                      !.background_color = from_name(value.v, "white")]
             ELSE IF value.type = "HashToken"
             THEN [style EXCEPT
                      !.background_color = from_code(value.v, "white")]
             ELSE style
      [] declaration.property = "color" ->
             IF value.type = "Ident"
             THEN [style EXCEPT !.color = from_name(value.v, "black")]
             ELSE IF value.type = "HashToken"
             THEN [style EXCEPT !.color = from_code(value.v, "black")]
             ELSE style
      [] declaration.property = "display" ->
             IF value.type = "Ident"
             THEN [style EXCEPT !.display = display_from_str(value.v)]
             ELSE style
      [] OTHER -> style

\* LayoutObject::cascading_style: the declarations in order, each overwriting
RECURSIVE cascading_style(_, _)
cascading_style(style, declarations) ==
    IF declarations = <<>> THEN style
    ELSE cascading_style(cascade_declaration(style, Head(declarations)),
                         Tail(declarations))

\* the loop over the rules taken from the last rule to the first
RECURSIVE apply_rules_backwards(_, _, _, _)
apply_rules_backwards(style, d, node, rules) ==
    IF rules = <<>> THEN style
    ELSE IF is_node_selected(d, node, Head(rules).selector)
    THEN cascading_style(apply_rules_backwards(style, d, node, Tail(rules)),
                         Head(rules).declarations)
    ELSE apply_rules_backwards(style, d, node, Tail(rules))

\* the loop `for rule in &cssom.rules` of create_layout_object
RECURSIVE apply_rules(_, _, _, _)
apply_rules(style, d, node, rules) ==
    IF rules = <<>> THEN style
    ELSE apply_rules(
             IF is_node_selected(d, node, Head(rules).selector)
             THEN cascading_style(style, Head(rules).declarations)
             ELSE style,
             d, node, Tail(rules))

\* LayoutObject::update_kind (no layout object is made of a Document)
update_kind(d, node, style) ==
    IF d[node].kind = "Text" THEN "Text"
    ELSE IF style.display = "Block" THEN "Block"
    ELSE "Inline"

\* the computed style create_layout_object gives the object of a node:
\* cascade over the rules, then defaulting against the parent's style
resolved_style(d, node, parent_obj, css, lo) ==
    defaulting(apply_rules(ComputedStyleNew, d, node, css), d, node,
               IF parent_obj # NIL THEN Some(lo[parent_obj].style) ELSE None)

\* create_layout_object without its test of display:none
create_layout_object_keeps_none(d, node, parent_obj, css, lo) ==
    IF node = NIL THEN None
    ELSE LET style == resolved_style(d, node, parent_obj, css, lo)
         IN Some([LayoutObjectNew(node, parent_obj) EXCEPT
                     !.style = style,
                     !.kind = update_kind(d, node, style)])

\* create_layout_object: None for no node and for display:none
create_layout_object(d, node, parent_obj, css, lo) ==
    IF node = NIL THEN None
    ELSE LET style == resolved_style(d, node, parent_obj, css, lo)
         IN IF style.display = "DisplayNone" THEN None
            ELSE Some([LayoutObjectNew(node, parent_obj) EXCEPT
                          !.style = style,
                          !.kind = update_kind(d, node, style)])

----------------------------------------------------------------------------
(* build_layout_tree (renderer/layout/layout_view.rs).  The operators      *)
(* return [obj |-> the layout object or NIL, lo |-> the objects made].     *)

\* the loop `while layout_object.is_none()`: the first node, from `node`
\* along next_sibling, that create_layout_object makes an object of
RECURSIVE first_created(_, _, _, _, _)
first_created(d, node, parent_obj, css, lo) ==
    IF create_layout_object(d, node, parent_obj, css, lo) # None THEN node
    ELSE IF node # NIL
    THEN first_created(d, d[node].next_sibling, parent_obj, css, lo)
    ELSE NIL

RECURSIVE build_layout_tree(_, _, _, _, _)
RECURSIVE retry_build(_, _, _, _, _)

\* the two `loop`s of build_layout_tree: build again from the next sibling
\* while nothing is built and a DOM node is left
retry_build(d, original_dom_node, parent_obj, css, lo) ==
    Bind(build_layout_tree(d, original_dom_node, parent_obj, css, lo),
         LAMBDA r :
         IF r.obj = NIL /\ original_dom_node # NIL
         THEN retry_build(d, d[original_dom_node].next_sibling, parent_obj,
                          css, lo)
         ELSE r)

\* build_layout_tree without the subtree of the next sibling
build_subtrees_without_siblings(d, target_node, parent_obj, css, lo) ==
    Bind((target_node :>
              Unwrap(create_layout_object(d, target_node, parent_obj, css,
                                          lo))) @@ lo,
         LAMBDA lo0 :
    Bind(build_layout_tree(d, d[target_node].first_child, target_node, css,
                           lo0),
         LAMBDA first :
         [obj |-> target_node,
          lo |-> [first.lo EXCEPT
                     ![target_node].first_child = first.obj]]))

\* build_layout_tree from the node the object is made of: the subtrees of
\* its first child and of its next sibling, the retries, the two links
build_subtrees(d, target_node, parent_obj, css, lo) ==
    LET original_first_child == d[target_node].first_child
        original_next_sibling == d[target_node].next_sibling
    IN
    Bind((target_node :>
              Unwrap(create_layout_object(d, target_node, parent_obj, css,
                                          lo))) @@ lo,
         LAMBDA lo0 :
    Bind(build_layout_tree(d, original_first_child, target_node, css, lo0),
         LAMBDA first :
    Bind(build_layout_tree(d, original_next_sibling, NIL, css, first.lo),
         LAMBDA next :
    Bind(IF first.obj = NIL /\ original_first_child # NIL
         THEN retry_build(d, d[original_first_child].next_sibling,
                          target_node, css, next.lo)
         ELSE [obj |-> first.obj, lo |-> next.lo],
         LAMBDA first_child :
    Bind(IF next.obj = NIL /\ original_next_sibling # NIL
         THEN retry_build(d, d[original_next_sibling].next_sibling,
                          target_node, css, first_child.lo)
         ELSE [obj |-> next.obj, lo |-> first_child.lo],
         LAMBDA next_sibling :
         [obj |-> target_node,
          lo |-> [next_sibling.lo EXCEPT
                     ![target_node].first_child = first_child.obj,
                     ![target_node].next_sibling = next_sibling.obj]])))))

build_layout_tree(d, node, parent_obj, css, lo) ==
    Bind(first_created(d, node, parent_obj, css, lo),
         LAMBDA target_node :
         IF target_node = NIL THEN [obj |-> NIL, lo |-> lo]
         ELSE build_subtrees(d, target_node, parent_obj, css, lo))

----------------------------------------------------------------------------
(* The size pass.                                                          *)

\* crate::constants
WINDOW_WIDTH == 600
WINDOW_PADDING == 5
CONTENT_AREA_WIDTH == WINDOW_WIDTH - WINDOW_PADDING * 2
CHAR_WIDTH == 8
CHAR_HEIGHT_WITH_PADDING == 20

\* the `ratio` of compute_size and paint
FontRatio(font_size) ==
    CASE font_size = "Medium" -> 1
      [] font_size = "XLarge" -> 2
      [] font_size = "XXLarge" -> 3

\* the loop of the Block arm adding the height of every child
RECURSIVE block_height_of_all(_, _, _)
block_height_of_all(lo, child, previous_child_kind) ==
    IF child = NIL THEN 0
    ELSE lo[child].size.height
         + block_height_of_all(lo, lo[child].next_sibling, lo[child].kind)

\* the Block arm of compute_size: the loop over the children, from `child`,
\* that adds a child's height if it or the child before it is a Block
RECURSIVE block_height(_, _, _)
block_height(lo, child, previous_child_kind) ==
    IF child = NIL THEN 0
    ELSE (IF previous_child_kind = "Block" \/ lo[child].kind = "Block"
          THEN lo[child].size.height ELSE 0)
         + block_height(lo, lo[child].next_sibling, lo[child].kind)

\* the Inline arm of compute_size: the sums over the children
RECURSIVE children_width(_, _)
children_width(lo, child) ==
    IF child = NIL THEN 0
    ELSE lo[child].size.width + children_width(lo, lo[child].next_sibling)

RECURSIVE children_height(_, _)
children_height(lo, child) ==
    IF child = NIL THEN 0
    ELSE lo[child].size.height + children_height(lo, lo[child].next_sibling)

\* LayoutObject::compute_size: the new size of the object n
compute_size(d, lo, n, parent_size) ==
    CASE lo[n].kind = "Block" ->
             LayoutSize(parent_size.width,
                        block_height(lo, lo[n].first_child, "Block"))
      [] lo[n].kind = "Inline" ->
             LayoutSize(children_width(lo, lo[n].first_child),
                        children_height(lo, lo[n].first_child))
      [] lo[n].kind = "Text" ->
             IF d[lo[n].node].kind = "Text"
             THEN LET ratio == FontRatio(lo[n].style.font_size)
                      width == CHAR_WIDTH * ratio * Len(d[lo[n].node].text)
                  IN IF width > CONTENT_AREA_WIDTH
                     THEN LET line_num ==
                                  IF width % CONTENT_AREA_WIDTH = 0
                                  THEN width \div CONTENT_AREA_WIDTH
                                  ELSE (width \div CONTENT_AREA_WIDTH) + 1
                          IN LayoutSize(
                                 CONTENT_AREA_WIDTH,
                                 line_num * ratio * CHAR_HEIGHT_WITH_PADDING)
                     ELSE LayoutSize(width, ratio * CHAR_HEIGHT_WITH_PADDING)
             ELSE LayoutSize(0, 0)

\* LayoutView::calculate_node_size
RECURSIVE calculate_node_size(_, _, _, _)
calculate_node_size(d, lo, node, parent_size) ==
    IF node = NIL THEN lo
    ELSE
    Bind(IF lo[node].kind = "Block"
         THEN [lo EXCEPT
                  ![node].size = compute_size(d, lo, node, parent_size)]
         ELSE lo,
         LAMBDA lo1 :
    Bind(calculate_node_size(d, lo1, lo1[node].first_child, lo1[node].size),
         LAMBDA lo2 :
    Bind(calculate_node_size(d, lo2, lo2[node].next_sibling, parent_size),
         LAMBDA lo3 :
         [lo3 EXCEPT
             ![node].size = compute_size(d, lo3, node, parent_size)])))

----------------------------------------------------------------------------
(* The position pass.  The point and the size of the previous sibling are  *)
(* Options.                                                                *)

\* compute_position taking the y of parent_point whatever the previous
\* sibling
compute_position_without_stacking(lo, n, parent_point, previous_sibling_kind, previous_sibling_point, previous_sibling_size) ==
    IF lo[n].kind = "Block" \/ previous_sibling_kind = "Block"
    THEN LayoutPoint(parent_point.x, parent_point.y)
    ELSE IF lo[n].kind = "Inline" /\ previous_sibling_kind = "Inline"
    THEN IF previous_sibling_size # None /\ previous_sibling_point # None
         THEN LayoutPoint(
                  Unwrap(previous_sibling_point).x
                      + Unwrap(previous_sibling_size).width,
                  Unwrap(previous_sibling_point).y)
         ELSE LayoutPoint(parent_point.x, parent_point.y)
    ELSE LayoutPoint(parent_point.x, parent_point.y)

\* LayoutObject::compute_position: the new point of the object n
compute_position(lo, n, parent_point, previous_sibling_kind, previous_sibling_point, previous_sibling_size) ==
    IF lo[n].kind = "Block" \/ previous_sibling_kind = "Block"
    THEN LayoutPoint(
             parent_point.x,
             IF previous_sibling_size # None /\ previous_sibling_point # None
             THEN Unwrap(previous_sibling_point).y
                      + Unwrap(previous_sibling_size).height
             ELSE parent_point.y)
    ELSE IF lo[n].kind = "Inline" /\ previous_sibling_kind = "Inline"
    THEN IF previous_sibling_size # None /\ previous_sibling_point # None
         THEN LayoutPoint(
                  Unwrap(previous_sibling_point).x
                      + Unwrap(previous_sibling_size).width,
                  Unwrap(previous_sibling_point).y)
         ELSE LayoutPoint(parent_point.x, parent_point.y)
    ELSE LayoutPoint(parent_point.x, parent_point.y)

\* LayoutView::calculate_node_position
RECURSIVE calculate_node_position(_, _, _, _, _, _)
calculate_node_position(lo, node, parent_point, previous_sibling_kind, previous_sibling_point, previous_sibling_size) ==
    IF node = NIL THEN lo
    ELSE
    Bind([lo EXCEPT
             ![node].point =
                 compute_position(lo, node, parent_point,
                                  previous_sibling_kind,
                                  previous_sibling_point,
                                  previous_sibling_size)],
         LAMBDA lo1 :
    Bind(calculate_node_position(lo1, lo1[node].first_child, lo1[node].point,
                                 "Block", None, None),
         LAMBDA lo2 :
         calculate_node_position(lo2, lo2[node].next_sibling,
                                 lo2[node].point, lo2[node].kind,
                                 Some(lo2[node].point),
                                 Some(lo2[node].size))))

\* LayoutView::update_layout
update_layout(d, lo, r) ==
    Bind(calculate_node_size(d, lo, r, LayoutSize(CONTENT_AREA_WIDTH, 0)),
         LAMBDA sized :
         calculate_node_position(sized, r, LayoutPoint(0, 0), "Block", None,
                                 None))

----------------------------------------------------------------------------
(* Painting.  A text is a sequence of one-character strings.               *)

\* str::trim
RECURSIVE trim_start(_)
trim_start(s) ==
    IF s # <<>> /\ (Head(s) = " " \/ Head(s) = "\n") THEN trim_start(Tail(s))
    ELSE s

RECURSIVE trim_end(_)
trim_end(s) ==
    IF s # <<>> /\ (Last(s) = " " \/ Last(s) = "\n") THEN trim_end(Front(s))
    ELSE s

trim(s) == trim_end(trim_start(s))

\* find_index_for_line_break: the last space before max_index (an index
\* that counts from 0), else max_index
RECURSIVE find_index_for_line_break(_, _, _)
find_index_for_line_break(line, i, max_index) ==
    IF i = 0 THEN max_index
    ELSE IF line[i] = " " THEN i - 1
    ELSE find_index_for_line_break(line, i - 1, max_index)

\* split_text
RECURSIVE split_text(_, _)
split_text(line, char_width) ==
    IF Len(line) * char_width > WINDOW_WIDTH + WINDOW_PADDING
    THEN LET max_index == (WINDOW_WIDTH + WINDOW_PADDING) \div char_width
             at == find_index_for_line_break(line, max_index, max_index)
         IN <<SubSeq(line, 1, at)>>
                \o split_text(trim(SubSeq(line, at + 1, Len(line))),
                              char_width)
    ELSE <<line>>

\* t.split(' ').filter(|s| !s.is_empty()): the words of a text
RECURSIVE split_words(_, _, _)
split_words(t, word, words) ==
    IF t = <<>> THEN (IF word # <<>> THEN Append(words, word) ELSE words)
    ELSE IF Head(t) = " "
    THEN split_words(Tail(t), <<>>,
                     IF word # <<>> THEN Append(words, word) ELSE words)
    ELSE split_words(Tail(t), Append(word, Head(t)), words)

\* .join(" ")
RECURSIVE join(_)
join(words) ==
    IF words = <<>> THEN <<>>
    ELSE IF Len(words) = 1 THEN words[1]
    ELSE words[1] \o <<" ">> \o join(Tail(words))

\* the plain_text of paint: the newlines removed, the words joined by a space
plain_text(t) ==
    join(split_words(SelectSeq(t, LAMBDA c : c # "\n"), <<>>, <<>>))

\* DisplayItem::Rect and DisplayItem::Text; `of` is not a field of DisplayItem,
\* it records the layout object whose paint made the item
Rect(of, style, layout_point, layout_size) ==
    [type |-> "Rect", of |-> of, style |-> style, text |-> <<>>,
     layout_point |-> layout_point, layout_size |-> layout_size]
TextItem(of, text, style, layout_point) ==
    [type |-> "Text", of |-> of, style |-> style, text |-> text,
     layout_point |-> layout_point, layout_size |-> LayoutSize(0, 0)]

\* LayoutObject::paint
paint(d, lo, n) ==
    IF lo[n].style.display = "DisplayNone" THEN <<>>
    ELSE CASE lo[n].kind = "Block" ->
                  IF d[lo[n].node].kind = "Element"
                  THEN <<Rect(n, lo[n].style, lo[n].point, lo[n].size)>>
                  ELSE <<>>
           [] lo[n].kind = "Inline" -> <<>>
           [] lo[n].kind = "Text" ->
                  IF d[lo[n].node].kind = "Text"
                  THEN LET ratio == FontRatio(lo[n].style.font_size)
                           lines == split_text(plain_text(d[lo[n].node].text),
                                               CHAR_WIDTH * ratio)
                       IN [i \in 1..Len(lines) |->
                              TextItem(n, lines[i], lo[n].style,
                                       LayoutPoint(
                                           lo[n].point.x,
                                           lo[n].point.y
                                               + CHAR_HEIGHT_WITH_PADDING
                                                     * (i - 1)))]
                  ELSE <<>>

\* paint_node walking the later siblings of a node before its children
RECURSIVE paint_node_siblings_first(_, _, _)
paint_node_siblings_first(d, lo, node) ==
    IF node = NIL THEN <<>>
    ELSE paint(d, lo, node)
             \o paint_node_siblings_first(d, lo, lo[node].next_sibling)
             \o paint_node_siblings_first(d, lo, lo[node].first_child)

\* LayoutView::paint_node
RECURSIVE paint_node(_, _, _)
paint_node(d, lo, node) ==
    IF node = NIL THEN <<>>
    ELSE paint(d, lo, node)
             \o paint_node(d, lo, lo[node].first_child)
             \o paint_node(d, lo, lo[node].next_sibling)

----------------------------------------------------------------------------
(* The render pass of Page::receive_response, after create_frame:          *)
(* set_layout_view, then paint_tree.                                       *)

\* LayoutView::new on the document and a style sheet of S: the layout tree
\* is built from the first body element, then sized and positioned
LayoutViewNew(S) ==
    /\ pc = "parsed"
    /\ \E css \in S :
       \E body_root \in {get_target_element_node(dom, Document, "body")} :
       \E built \in {build_layout_tree(dom, body_root, NIL, css, <<>>)} :
           /\ cssom' = css
           /\ root' = built.obj
           /\ layout' = update_layout(dom, built.lo, built.obj)
    /\ pc' = "laid_out"
    /\ UNCHANGED <<ui, http, js>>
    /\ UNCHANGED <<mode, original_insertion_mode, stack_of_open_elements,
                   dom, token, consumed, chars_only, display_items,
                   css_parser>>

\* LayoutView::paint, stored by Page::paint_tree
Paint ==
    /\ pc = "laid_out"
    /\ display_items' = paint_node(dom, layout, root)
    /\ pc' = "painted"
    /\ UNCHANGED <<ui, http, js>>
    /\ UNCHANGED <<mode, original_insertion_mode, stack_of_open_elements,
                   dom, token, consumed, chars_only, cssom, layout, root,
                   css_parser>>

\* the style sheets of specification Spec
HiddenClass ==
    QualifiedRule(Selector("ClassSelector", "hidden"),
                  <<Declaration("display", Ident("none"))>>)
BodyNone ==
    QualifiedRule(Selector("TypeSelector", "body"),
                  <<Declaration("display", Ident("none"))>>)
ParagraphNone ==
    QualifiedRule(Selector("TypeSelector", "p"),
                  <<Declaration("display", Ident("none"))>>)
AnchorBlock ==
    QualifiedRule(Selector("TypeSelector", "a"),
                  <<Declaration("display", Ident("block"))>>)
StyleSheets ==
    {<<>>, <<HiddenClass>>, <<BodyNone>>, <<ParagraphNone, AnchorBlock>>}
\* the style sheets of specification SpecBody
BodySheets == {<<HiddenClass>>, <<ParagraphNone, AnchorBlock>>}

\* WasabiUI::new: no input, Normal mode; no key has been read and no
\* navigation started
WasabiUINew ==
    [input_url |-> <<>>, input_mode |-> "Normal", key |-> {},
     destination |-> {}]

\* handle_url before its first request: no GET sent, no response received,
\* nothing returned
HandleUrlNew == [get_count |-> 0, url |-> "", received |-> {}, result |-> {}]

\* JsRuntime::new: one Environment without outer and without variables
JsRuntimeNew == [env |-> <<<<>>>>, statement |-> {}]

\* the application before anything is typed, fetched or executed
AppNew ==
    /\ ui = WasabiUINew
    /\ http = HandleUrlNew
    /\ js = JsRuntimeNew

\* HtmlParser::new
ParserNew ==
    /\ pc = "new"
    /\ mode = "Initial"
    /\ original_insertion_mode = "Initial"
    /\ stack_of_open_elements = <<>>
    /\ dom = WindowNew
    /\ token = NoToken
    /\ consumed = 0
    /\ chars_only = TRUE

\* the style content of a page whose style sheet is given as its rules
NoStyle == [content |-> <<>>, t |-> <<>>]

\* Page::new: no style, no layout view, no display items
PageNew ==
    /\ cssom = <<>>
    /\ layout = <<>>
    /\ root = NIL
    /\ display_items = <<>>
    /\ css_parser = NoStyle

Init == ParserNew /\ PageNew /\ AppNew

Next ==
    \/ Parse(Tokens, MaxTokens)
    \/ LayoutViewNew(StyleSheets)
    \/ Paint

Spec == Init /\ [][Next]_vars

----------------------------------------------------------------------------
(* Specification SpecBody: the content of a body.  construct_tree has      *)
(* consumed <html><head></head><body> and dispatches the first token of    *)
(* the body; the page is then laid out and painted.                        *)

\* the DOM and the stack once <html><head></head><body ...> are consumed
BodyOpened(attributes) ==
    LET html == insert_element(WindowNew, <<>>, "html", <<>>)
        head == insert_element(html.dom, html.stack, "head", <<>>)
        body == insert_element(head.dom,
                               pop_until(head.dom, head.stack, "head"),
                               "body", attributes)
    IN body

InitBody ==
    /\ AppNew
    /\ \E t \in BodyTokens \cup {NoToken} :
           /\ token = t
           /\ pc = IF t.type = "None" THEN "parsed" ELSE "parsing"
    /\ mode = "InBody"
    /\ original_insertion_mode = "Initial"
    /\ stack_of_open_elements = BodyOpened(<<>>).stack
    /\ dom = BodyOpened(<<>>).dom
    /\ consumed = 1
    /\ chars_only = FALSE
    /\ PageNew

NextBody ==
    \/ InBody(BodyTokens, MaxBodyTokens)
    \/ LayoutViewNew(BodySheets)
    \/ Paint

SpecBody == InitBody /\ [][NextBody]_vars

----------------------------------------------------------------------------
(* Specification SpecCascade: the cascade on a body.  construct_tree has   *)
(* returned on <html><head></head><body ...>; the page is laid out under   *)
(* a style sheet of at most MaxRules rules, then painted.                  *)

\* the attributes of the body
CascadeBodies ==
    {<<>>, <<Attribute("class", "c")>>,
     <<Attribute("class", "c"), Attribute("id", "i")>>}

CascadeSelectors ==
    {Selector("TypeSelector", "body"), Selector("ClassSelector", "c"),
     Selector("IdSelector", "i")}

\* declarations of the three properties of the cascade: with a value it
\* takes (an identifier, a hash token) and with one it does not (a number)
CascadeDeclarations ==
    {Declaration("display", Ident("block")),
     Declaration("display", Ident("none")),
     Declaration("display", Number("40")),
     Declaration("color", Ident("red")),
     Declaration("color", HashToken("#0000ff")),
     Declaration("color", Number("40")),
     Declaration("background-color", Ident("blue")),
     Declaration("background-color", HashToken("#ff0000")),
     Declaration("background-color", Number("40"))}

CascadeRules ==
    {QualifiedRule(selector, <<declaration>>) :
        selector \in CascadeSelectors, declaration \in CascadeDeclarations}

CascadeSheets == UNION {[1..n -> CascadeRules] : n \in 0..MaxRules}

InitCascade ==
    /\ AppNew
    /\ pc = "parsed"
    /\ mode = "InBody"
    /\ original_insertion_mode = "Initial"
    /\ \E attributes \in CascadeBodies :
           /\ stack_of_open_elements = BodyOpened(attributes).stack
           /\ dom = BodyOpened(attributes).dom
    /\ token = NoToken
    /\ consumed = 1
    /\ chars_only = FALSE
    /\ PageNew

NextCascade ==
    \/ LayoutViewNew(CascadeSheets)
    \/ Paint

SpecCascade == InitCascade /\ [][NextCascade]_vars

----------------------------------------------------------------------------
(* Specification SpecText: one text in a body.  construct_tree has         *)
(* returned on <html><head></head><body>, an optional start tag and the    *)
(* characters of a text; the page is then laid out and painted.            *)

\* the longest text, in pieces
MaxPieces == 4

\* a word of n characters
Word(n) == [i \in 1..n |-> "x"]

\* the pieces a text is made of: words and a space
Pieces == {Word(1), Word(6), Word(13), <<" ">>}

RECURSIVE Concat(_)
Concat(pieces) ==
    IF pieces = <<>> THEN <<>> ELSE Head(pieces) \o Concat(Tail(pieces))

Texts ==
    {Concat(pieces) :
        pieces \in UNION {[1..n -> Pieces] : n \in 1..MaxPieces}}

\* the element the text is put in: the body itself, or an element in it
TextParents == {"body", "h1", "h2"}

\* the Char arm of InBody taken on each character of a text in turn
RECURSIVE InsertChars(_, _, _)
InsertChars(d, stack, text) ==
    IF text = <<>> THEN [dom |-> d, stack |-> stack]
    ELSE Bind(insert_char(d, stack, Head(text)),
              LAMBDA r : InsertChars(r.dom, r.stack, Tail(text)))

\* the DOM and the stack once the text is consumed
TextInserted(tag, text) ==
    LET opened == BodyOpened(<<>>)
        parent == IF tag = "body" THEN opened
                  ELSE insert_element(opened.dom, opened.stack, tag, <<>>)
    IN InsertChars(parent.dom, parent.stack, text)

InitText ==
    /\ AppNew
    /\ pc = "parsed"
    /\ mode = "InBody"
    /\ original_insertion_mode = "Initial"
    /\ \E tag \in TextParents, text \in Texts :
       \E r \in {TextInserted(tag, text)} :
           /\ stack_of_open_elements = r.stack
           /\ dom = r.dom
    /\ token = NoToken
    /\ consumed = 1
    /\ chars_only = FALSE
    /\ PageNew

NextText ==
    \/ LayoutViewNew({<<>>})
    \/ Paint

SpecText == InitText /\ [][NextText]_vars

----------------------------------------------------------------------------
(* CSS tokens (renderer/css/token.rs).  In the CSS specifications a        *)
(* String is the sequence of its characters, each a one-character string;  *)
(* a Number holds the numeral of its f64 counted in tenths.                *)

Delim(c) == ComponentValue("Delim", <<c>>)
Colon == ComponentValue("Colon", <<>>)
SemiColon == ComponentValue("SemiColon", <<>>)
OpenParenthesis == ComponentValue("OpenParenthesis", <<>>)
CloseParenthesis == ComponentValue("CloseParenthesis", <<>>)
OpenCurly == ComponentValue("OpenCurly", <<>>)
CloseCurly == ComponentValue("CloseCurly", <<>>)
StringToken(v) == ComponentValue("StringToken", v)
AtKeyword(v) == ComponentValue("AtKeyword", v)

\* char::is_ascii_alphabetic, '0'..='9'
Alphabetic ==
    {"a", "b", "c", "d", "e", "f", "g", "h", "i", "j", "k", "l", "m", "n",
     "o", "p", "q", "r", "s", "t", "u", "v", "w", "x", "y", "z",
     "A", "B", "C", "D", "E", "F", "G", "H", "I", "J", "K", "L", "M", "N",
     "O", "P", "Q", "R", "S", "T", "U", "V", "W", "X", "Y", "Z"}
Digits == {"0", "1", "2", "3", "4", "5", "6", "7", "8", "9"}
DigitChar(n) ==
    CASE n = 0 -> "0" [] n = 1 -> "1" [] n = 2 -> "2" [] n = 3 -> "3"
      [] n = 4 -> "4" [] n = 5 -> "5" [] n = 6 -> "6" [] n = 7 -> "7"
      [] n = 8 -> "8" [] n = 9 -> "9"
\* the decimal numeral of a natural number
RECURSIVE Numeral(_)
Numeral(n) ==
    IF n < 10 THEN <<DigitChar(n)>>
    ELSE Append(Numeral(n \div 10), DigitChar(n % 10))
DigitValue(c) ==
    CASE c = "0" -> 0 [] c = "1" -> 1 [] c = "2" -> 2 [] c = "3" -> 3
      [] c = "4" -> 4 [] c = "5" -> 5 [] c = "6" -> 6 [] c = "7" -> 7
      [] c = "8" -> 8 [] c = "9" -> 9

\* the outcome of a call: it returns `out` with the input read up to pos
\* (the index of the next character or token, from 1), or it panics, or it
\* never returns
Ok(pos, out) == [status |-> "ok", pos |-> pos, out |-> out]
Panics(pos) == [status |-> "panic", pos |-> pos, out |-> <<>>]
Loops(pos) == [status |-> "loop", pos |-> pos, out |-> <<>>]

\* CssTokenizer::consume_string_token, entered with pos on the opening
\* quote; self.input[self.pos] past the end panics
RECURSIVE consume_string_token(_, _, _)
consume_string_token(input, pos, s) ==
    IF pos > Len(input) THEN Ok(pos, s)
    ELSE IF pos + 1 > Len(input) THEN Panics(pos + 1)
    ELSE IF input[pos + 1] = "\"" \/ input[pos + 1] = "'" THEN Ok(pos + 1, s)
    ELSE consume_string_token(input, pos + 1, Append(s, input[pos + 1]))

\* CssTokenizer::consume_numeric_token; num and floating_digit are in tenths
RECURSIVE consume_numeric_token(_, _, _, _, _)
consume_numeric_token(input, pos, num, floating, floating_digit) ==
    IF pos > Len(input) THEN Ok(pos, num)
    ELSE IF input[pos] \in Digits
    THEN IF floating
         THEN consume_numeric_token(
                  input, pos + 1,
                  num + DigitValue(input[pos]) * (floating_digit + 1),
                  floating, floating_digit + 1)
         ELSE consume_numeric_token(
                  input, pos + 1, num * 10 + DigitValue(input[pos]) * 10,
                  floating, floating_digit)
    ELSE IF input[pos] = "."
    THEN consume_numeric_token(input, pos + 1, num, TRUE, floating_digit)
    ELSE Ok(pos, num)

\* the loop of CssTokenizer::consume_ident_token, s holding the first
\* character already
RECURSIVE consume_ident_token(_, _, _)
consume_ident_token(input, pos, s) ==
    IF pos > Len(input) THEN Ok(pos, s)
    ELSE IF pos + 1 > Len(input) THEN Panics(pos + 1)
    ELSE IF input[pos + 1] \in Alphabetic \cup Digits \cup {"_", "-"}
    THEN consume_ident_token(input, pos + 1, Append(s, input[pos + 1]))
    ELSE Ok(pos + 1, s)

\* the token of an outcome of consume_ident_token, built by make
IdentToken(r, make(_)) == IF r.status = "ok" THEN Ok(r.pos, make(r.out)) ELSE r

\* CssTokenizer::next: Ok(pos, Some(token)), or Ok(pos, None) at the end
RECURSIVE next(_, _)
next(input, pos) ==
    IF pos > Len(input) THEN Ok(pos, None)
    ELSE LET c == input[pos] IN
    CASE c = "(" -> Ok(pos + 1, Some(OpenParenthesis))
      [] c = ")" -> Ok(pos + 1, Some(CloseParenthesis))
      [] c = "," -> Ok(pos + 1, Some(Delim(",")))
      [] c = "." -> Ok(pos + 1, Some(Delim(".")))
      [] c = ":" -> Ok(pos + 1, Some(Colon))
      [] c = ";" -> Ok(pos + 1, Some(SemiColon))
      [] c = "{" -> Ok(pos + 1, Some(OpenCurly))
      [] c = "}" -> Ok(pos + 1, Some(CloseCurly))
      [] c = " " \/ c = "\n" -> next(input, pos + 1)
      [] c = "\"" \/ c = "'" ->
             LET r == consume_string_token(input, pos, <<>>)
             IN IF r.status = "ok"
                THEN Ok(r.pos + 1, Some(StringToken(r.out)))
                ELSE r
      [] c \in Digits ->
             LET r == consume_numeric_token(input, pos, 0, FALSE, 10)
             IN Ok(r.pos, Some(Number(Numeral(r.out))))
      [] c = "#" ->
             IdentToken(consume_ident_token(input, pos, <<c>>),
                        LAMBDA s : Some(HashToken(s)))
      [] c = "-" ->
             IdentToken(consume_ident_token(input, pos, <<c>>),
                        LAMBDA s : Some(Ident(s)))
      [] c = "@" ->
             IF Len(input) >= (pos - 1) + 3
             THEN IF input[pos + 1] \notin Alphabetic
                     \/ input[pos + 2] \notin Alphabetic
                  THEN Ok(pos + 1, Some(Delim("@")))
                  ELSE IF pos + 3 > Len(input) THEN Panics(pos + 3)
                  ELSE IF input[pos + 3] \notin Alphabetic
                  THEN Ok(pos + 1, Some(Delim("@")))
                  ELSE IdentToken(
                           consume_ident_token(input, pos + 1,
                                               <<input[pos + 1]>>),
                           LAMBDA s : Some(AtKeyword(s)))
             ELSE Ok(pos + 1, Some(Delim("@")))
      [] c \in Alphabetic \cup {"_"} ->
             IdentToken(consume_ident_token(input, pos, <<c>>),
                        LAMBDA s : Some(Ident(s)))
      [] OTHER -> Panics(pos)

\* the tokens the iterator yields until it returns None
RECURSIVE Tokenize(_, _, _)
Tokenize(input, pos, tokens) ==
    Bind(next(input, pos),
         LAMBDA r :
             IF r.status # "ok" THEN r
             ELSE IF r.out = None THEN Ok(r.pos, tokens)
             ELSE Tokenize(input, r.pos, Append(tokens, Unwrap(r.out))))

----------------------------------------------------------------------------
(* CssParser (renderer/css/parser.rs).  t is the token stream behind the   *)
(* Peekable and pos the index of the token that peek() shows; peek() is    *)
(* None when pos is past the end of t.                                     *)

\* self.t.peek() == Some(&token of that type)
Peeks(t, pos, type) == pos <= Len(t) /\ t[pos].type = type

\* self.t.next() on a token the caller does not look at
Skip(t, pos) == IF pos <= Len(t) THEN pos + 1 ELSE pos

\* CssParser::consume_ident
consume_ident(t, pos) ==
    IF pos > Len(t) THEN Panics(pos)
    ELSE IF t[pos].type = "Ident" THEN Ok(pos + 1, t[pos].v)
    ELSE Panics(pos + 1)

\* CssParser::consume_component_value
consume_component_value(t, pos) ==
    IF pos > Len(t) THEN Panics(pos) ELSE Ok(pos + 1, t[pos])

\* while self.t.peek() != Some(&CssToken::OpenCurly) { self.t.next(); }
\* Once the stream is exhausted peek() is None and next() changes nothing:
\* the condition stays true and the loop never ends.
RECURSIVE skip_to_open_curly(_, _)
skip_to_open_curly(t, pos) ==
    IF Peeks(t, pos, "OpenCurly") THEN Ok(pos, <<>>)
    ELSE IF pos > Len(t) THEN Loops(pos)
    ELSE skip_to_open_curly(t, pos + 1)

\* the selector of an outcome of skip_to_open_curly
Skipped(r, selector) == IF r.status = "ok" THEN Ok(r.pos, selector) ELSE r

\* consume_selector keeping the whole value of a hash token
consume_selector_keeps_hash(t, pos) ==
    IF pos > Len(t) THEN Panics(pos)
    ELSE LET first == t[pos] IN
    CASE first.type = "HashToken" ->
             Ok(pos + 1, Selector("IdSelector", first.v))
      [] first.type = "Delim" ->
             IF first.v = <<".">>
             THEN LET r == consume_ident(t, pos + 1)
                  IN IF r.status = "ok"
                     THEN Ok(r.pos, Selector("ClassSelector", r.out))
                     ELSE r
             ELSE Panics(pos + 1)
      [] first.type = "Ident" ->
             IF Peeks(t, pos + 1, "Colon")
             THEN Skipped(skip_to_open_curly(t, pos + 1),
                          Selector("TypeSelector", first.v))
             ELSE Ok(pos + 1, Selector("TypeSelector", first.v))
      [] first.type = "AtKeyword" ->
             Skipped(skip_to_open_curly(t, pos + 1), UnknownSelector)
      [] OTHER -> Ok(Skip(t, pos + 1), UnknownSelector)

\* CssParser::consume_selector
consume_selector(t, pos) ==
    IF pos > Len(t) THEN Panics(pos)
    ELSE LET first == t[pos] IN
    CASE first.type = "HashToken" ->
             Ok(pos + 1, Selector("IdSelector", Tail(first.v)))
      [] first.type = "Delim" ->
             IF first.v = <<".">>
             THEN LET r == consume_ident(t, pos + 1)
                  IN IF r.status = "ok"
                     THEN Ok(r.pos, Selector("ClassSelector", r.out))
                     ELSE r
             ELSE Panics(pos + 1)
      [] first.type = "Ident" ->
             IF Peeks(t, pos + 1, "Colon")
             THEN Skipped(skip_to_open_curly(t, pos + 1),
                          Selector("TypeSelector", first.v))
             ELSE Ok(pos + 1, Selector("TypeSelector", first.v))
      [] first.type = "AtKeyword" ->
             Skipped(skip_to_open_curly(t, pos + 1), UnknownSelector)
      [] OTHER -> Ok(Skip(t, pos + 1), UnknownSelector)

\* CssParser::consume_declaration: Ok(pos, Some(declaration)) or
\* Ok(pos, None)
consume_declaration(t, pos) ==
    IF pos > Len(t) THEN Ok(pos, None)
    ELSE LET property == consume_ident(t, pos) IN
         IF property.status # "ok" THEN property
         ELSE IF ~Peeks(t, property.pos, "Colon")
         THEN Ok(Skip(t, property.pos), None)
         ELSE LET value == consume_component_value(t, property.pos + 1) IN
              IF value.status # "ok" THEN value
              ELSE Ok(value.pos,
                      Some(Declaration(property.out, value.out)))

\* consume_list_of_declarations pushing a declaration at the front
RECURSIVE consume_list_of_declarations_reversed(_, _, _)
consume_list_of_declarations_reversed(t, pos, declarations) ==
    IF pos > Len(t) THEN Ok(pos, declarations)
    ELSE
    CASE t[pos].type = "CloseCurly" -> Ok(pos + 1, declarations)
      [] t[pos].type = "SemiColon" ->
             consume_list_of_declarations_reversed(t, pos + 1, declarations)
      [] t[pos].type = "Ident" ->
             Bind(consume_declaration(t, pos),
                  LAMBDA r :
                      IF r.status # "ok" THEN r
                      ELSE consume_list_of_declarations_reversed(
                               t, r.pos,
                               IF r.out # None
                               THEN <<Unwrap(r.out)>> \o declarations
                               ELSE declarations))
      [] OTHER ->
             consume_list_of_declarations_reversed(t, pos + 1, declarations)

\* CssParser::consume_list_of_declarations, entered after the `{`
RECURSIVE consume_list_of_declarations(_, _, _)
consume_list_of_declarations(t, pos, declarations) ==
    IF pos > Len(t) THEN Ok(pos, declarations)
    ELSE
    CASE t[pos].type = "CloseCurly" -> Ok(pos + 1, declarations)
      [] t[pos].type = "SemiColon" ->
             consume_list_of_declarations(t, pos + 1, declarations)
      [] t[pos].type = "Ident" ->
             Bind(consume_declaration(t, pos),
                  LAMBDA r :
                      IF r.status # "ok" THEN r
                      ELSE consume_list_of_declarations(
                               t, r.pos,
                               IF r.out # None
                               THEN Append(declarations, Unwrap(r.out))
                               ELSE declarations))
      [] OTHER -> consume_list_of_declarations(t, pos + 1, declarations)

\* QualifiedRule::new
QualifiedRuleNew == QualifiedRule(Selector("TypeSelector", <<>>), <<>>)

\* CssParser::consume_qualified_rule: Ok(pos, Some(rule)) or Ok(pos, None)
RECURSIVE consume_qualified_rule(_, _, _)
consume_qualified_rule(t, pos, rule) ==
    IF pos > Len(t) THEN Ok(pos, None)
    ELSE IF t[pos].type = "OpenCurly"
    THEN Bind(consume_list_of_declarations(t, pos + 1, <<>>),
              LAMBDA r :
                  IF r.status # "ok" THEN r
                  ELSE Ok(r.pos, Some([rule EXCEPT !.declarations = r.out])))
    ELSE Bind(consume_selector(t, pos),
              LAMBDA r :
                  IF r.status # "ok" THEN r
                  ELSE consume_qualified_rule(
                           t, r.pos, [rule EXCEPT !.selector = r.out]))

\* CssParser::consume_list_of_rules
RECURSIVE consume_list_of_rules(_, _, _)
consume_list_of_rules(t, pos, rules) ==
    IF pos > Len(t) THEN Ok(pos, rules)
    ELSE Bind(consume_qualified_rule(t, pos, QualifiedRuleNew),
              LAMBDA r :
                  IF r.status # "ok" THEN r
                  ELSE IF t[pos].type = "AtKeyword"
                  THEN consume_list_of_rules(t, r.pos, rules)
                  ELSE IF r.out # None
                  THEN consume_list_of_rules(
                           t, r.pos, Append(rules, Unwrap(r.out)))
                  ELSE Ok(r.pos, rules))

\* CssParser::parse_stylesheet
parse_stylesheet(t) == consume_list_of_rules(t, 1, <<>>)

\* CssParser::new(CssTokenizer::new(style)).parse_stylesheet(): the page
\* gets the style sheet, or the thread panics, or the call never returns
ParseStylesheet ==
    /\ pc = "style"
    /\ \E r \in {parse_stylesheet(css_parser.t)} :
           /\ pc' = CASE r.status = "ok" -> "sheet"
                      [] r.status = "panic" -> "panicked"
                      [] r.status = "loop" -> "looping"
           /\ cssom' = IF r.status = "ok" THEN r.out ELSE cssom
    /\ UNCHANGED <<ui, http, js>>
    /\ UNCHANGED <<mode, original_insertion_mode, stack_of_open_elements,
                   dom, token, consumed, chars_only, layout, root,
                   display_items, css_parser>>

----------------------------------------------------------------------------
(* Specification SpecCss: the style content of a page is the text of at    *)
(* most MaxItems rules and at-rules; CssTokenizer reads the text and       *)
(* parse_stylesheet the tokens.                                            *)

\* the longest style content, in rules and at-rules
MaxItems == 2

\* the selectors of the text, p, a:hover, .c and #id, each with the
\* selector it stands for
SelectorTexts ==
    {[text |-> <<"p">>, selector |-> Selector("TypeSelector", <<"p">>)],
     [text |-> <<"a", ":", "h", "o", "v", "e", "r">>,
      selector |-> Selector("TypeSelector", <<"a">>)],
     [text |-> <<".", "c">>, selector |-> Selector("ClassSelector", <<"c">>)],
     [text |-> <<"#", "i", "d">>,
      selector |-> Selector("IdSelector", <<"i", "d">>)]}

\* the declarations of the text, each `property: value;` with a value of
\* one token (an identifier, a hash token, a number), and the declaration
\* it stands for
DeclarationTexts ==
    {[text |-> <<"c", "o", "l", "o", "r", ":", " ", "r", "e", "d", ";">>,
      declaration |-> Declaration(<<"c", "o", "l", "o", "r">>,
                                  Ident(<<"r", "e", "d">>))],
     [text |-> <<"c", "o", "l", "o", "r", ":", "#", "f", "f", ";">>,
      declaration |-> Declaration(<<"c", "o", "l", "o", "r">>,
                                  HashToken(<<"#", "f", "f">>))],
     [text |-> <<"w", ":", " ", "4", "0", ";", " ">>,
      declaration |-> Declaration(<<"w">>, Number(<<"4", "0", "0">>))]}

DeclarationLists == UNION {[1..n -> DeclarationTexts] : n \in 0..2}

\* the text of a rule `selector { declarations }`
RuleText(selector, declarations) ==
    selector \o <<" ", "{">> \o Concat(declarations) \o <<"}", "\n">>

\* the rules of the text: the text of a rule and the rule it stands for
RuleTexts ==
    {[text |-> RuleText(selector.text,
                        [i \in 1..Len(declarations) |->
                            declarations[i].text]),
      rule |-> Some(QualifiedRule(selector.selector,
                                  [i \in 1..Len(declarations) |->
                                      declarations[i].declaration]))] :
        selector \in SelectorTexts, declarations \in DeclarationLists}

\* at-rules with their blocks, which stand for no rule: a block of
\* declarations, and a block of rules behind a condition
AtRuleTexts ==
    {[text |-> <<"@", "f", "o", "n", "t", " ", "{">>
                   \o <<"w", ":", " ", "4", "0", ";">> \o <<"}", "\n">>,
      rule |-> None],
     [text |-> <<"@", "m", "e", "d", "i", "a", " ", "(", "w", ")", " ", "{">>
                   \o RuleText(<<"p">>, <<>>) \o <<"}", "\n">>,
      rule |-> None],
     [text |-> <<"@", "m", "e", "d", "i", "a", " ", "p", " ", "{">>
                   \o RuleText(<<".", "c">>,
                               <<<<"c", "o", "l", "o", "r", ":", "r", "e",
                                   "d", ";">>>>)
                   \o <<"}", "\n">>,
      rule |-> None]}

\* the style contents: rules and at-rules one after the other
StyleContents ==
    UNION {[1..n -> RuleTexts \cup AtRuleTexts] : n \in 0..MaxItems}

\* the text of a style content
StyleText(content) == Concat([i \in 1..Len(content) |-> content[i].text])

\* CssParser::new(CssTokenizer::new(style)): content keeps the rules and
\* at-rules of the style, t is what the tokenizer yields on their text
InitCss ==
    /\ AppNew
    /\ pc = "style"
    /\ mode = "Initial"
    /\ original_insertion_mode = "Initial"
    /\ stack_of_open_elements = <<>>
    /\ dom = WindowNew
    /\ token = NoToken
    /\ consumed = 0
    /\ chars_only = TRUE
    /\ cssom = <<>>
    /\ layout = <<>>
    /\ root = NIL
    /\ display_items = <<>>
    /\ \E content \in StyleContents :
       \E tokens \in {Tokenize(StyleText(content), 1, <<>>)} :
           /\ tokens.status = "ok"
           /\ css_parser = [content |-> content, t |-> tokens.out]

NextCss == ParseStylesheet

SpecCss == InitCss /\ [][NextCss]_vars

----------------------------------------------------------------------------
(* Specification SpecCssTokens: parse_stylesheet on any stream of at most  *)
(* MaxCssTokens tokens, well-formed or not.                                *)

\* the longest token stream
MaxCssTokens == 4

\* the token alphabet of the streams
CssTokens ==
    {Ident(<<"p">>), HashToken(<<"#", "i">>), Delim("."), Delim(","), Colon,
     SemiColon, OpenCurly, CloseCurly, AtKeyword(<<"m">>)}

CssTokenStreams == UNION {[1..n -> CssTokens] : n \in 0..MaxCssTokens}

\* CssParser::new on a tokenizer that yields the stream
InitCssTokens ==
    /\ AppNew
    /\ pc = "style"
    /\ mode = "Initial"
    /\ original_insertion_mode = "Initial"
    /\ stack_of_open_elements = <<>>
    /\ dom = WindowNew
    /\ token = NoToken
    /\ consumed = 0
    /\ chars_only = TRUE
    /\ cssom = <<>>
    /\ layout = <<>>
    /\ root = NIL
    /\ display_items = <<>>
    /\ \E t \in CssTokenStreams : css_parser = [content |-> <<>>, t |-> t]

NextCssTokens == ParseStylesheet

SpecCssTokens == InitCssTokens /\ [][NextCssTokens]_vars

----------------------------------------------------------------------------
(* The specification of the CSS tokenizer alone (SpecCssInput).  The       *)
(* input is any string of at most MaxCssChars characters that              *)
(* CssTokenizer::next has an arm for; css_parser holds the tokenizer: its  *)
(* input, its pos (from 1) and the tokens its calls have returned.         *)

\* the longest input of the tokenizer
MaxCssChars == 5

\* the characters of the inputs: a letter, a digit, `#`, `@`, a quote, a
\* space and a brace
CssChars == {"p", "1", "#", "@", "'", " ", "{"}

CssInputs == UNION {[1..n -> CssChars] : n \in 0..MaxCssChars}

\* CssTokenizer::new
CssTokenizerNew(css) == [content |-> css, pos |-> 1, t |-> <<>>]

InitCssInput ==
    /\ AppNew
    /\ pc = "tokenizing"
    /\ mode = "Initial"
    /\ original_insertion_mode = "Initial"
    /\ stack_of_open_elements = <<>>
    /\ dom = WindowNew
    /\ token = NoToken
    /\ consumed = 0
    /\ chars_only = TRUE
    /\ cssom = <<>>
    /\ layout = <<>>
    /\ root = NIL
    /\ display_items = <<>>
    /\ \E css \in CssInputs : css_parser = CssTokenizerNew(css)

\* one call of CssTokenizer::next: it returns Some(token), or None at the
\* end of the input, or panics on an index past the end
CssTokenizerNext ==
    /\ pc = "tokenizing"
    /\ \E r \in {next(css_parser.content, css_parser.pos)} :
           /\ pc' = CASE r.status = "panic" -> "panicked"
                      [] r.status = "ok" /\ r.out = None -> "tokenized"
                      [] OTHER -> "tokenizing"
           /\ css_parser' =
                  IF r.status = "ok"
                  THEN [css_parser EXCEPT
                           !.pos = r.pos,
                           !.t = IF r.out = None THEN @
                                 ELSE Append(@, Unwrap(r.out))]
                  ELSE css_parser
    /\ UNCHANGED <<ui, http, js>>
    /\ UNCHANGED <<mode, original_insertion_mode, stack_of_open_elements,
                   dom, token, consumed, chars_only, cssom, layout, root,
                   display_items>>

NextCssInput == CssTokenizerNext

SpecCssInput == InitCssInput /\ [][NextCssInput]_vars

----------------------------------------------------------------------------
(* The specification of the termination of construct_tree                  *)
(* (SpecTermination): the inputs of Spec, and the loop of construct_tree   *)
(* keeps running, that is, a turn that is possible is eventually taken.    *)

SpecTermination == Init /\ [][Next]_vars /\ WF_vars(Next)

----------------------------------------------------------------------------
(* The specification of the declaration list of one rule                   *)
(* (SpecDeclarations).  css_parser holds the tokens that follow the `{` of *)
(* a rule, any stream of at most MaxDeclarationTokens tokens, and pos, the *)
(* index (from 1) of the token that peek() shows; the declarations that    *)
(* consume_list_of_declarations returns are set in the rule of cssom.      *)

\* the longest token stream after the `{`
MaxDeclarationTokens == 5

DeclarationTokens == {Ident(<<"p">>), Colon, SemiColon, CloseCurly}

DeclarationStreams ==
    UNION {[1..n -> DeclarationTokens] : n \in 0..MaxDeclarationTokens}

InitDeclarations ==
    /\ AppNew
    /\ pc = "block"
    /\ mode = "Initial"
    /\ original_insertion_mode = "Initial"
    /\ stack_of_open_elements = <<>>
    /\ dom = WindowNew
    /\ token = NoToken
    /\ consumed = 0
    /\ chars_only = TRUE
    /\ cssom = <<QualifiedRuleNew>>
    /\ layout = <<>>
    /\ root = NIL
    /\ display_items = <<>>
    /\ \E t \in DeclarationStreams :
           css_parser = [content |-> <<>>, pos |-> 1, t |-> t]

\* rule.set_declarations(self.consume_list_of_declarations())
ConsumeListOfDeclarations ==
    /\ pc = "block"
    /\ \E r \in {consume_list_of_declarations(css_parser.t, css_parser.pos,
                                              <<>>)} :
           /\ pc' = IF r.status = "ok" THEN "rule" ELSE "panicked"
           /\ cssom' = IF r.status = "ok"
                       THEN <<[cssom[1] EXCEPT !.declarations = r.out]>>
                       ELSE cssom
           /\ css_parser' = IF r.status = "ok"
                            THEN [css_parser EXCEPT !.pos = r.pos]
                            ELSE css_parser
    /\ UNCHANGED <<ui, http, js>>
    /\ UNCHANGED <<mode, original_insertion_mode, stack_of_open_elements,
                   dom, token, consumed, chars_only, layout, root,
                   display_items>>

NextDeclarations == ConsumeListOfDeclarations

SpecDeclarations == InitDeclarations /\ [][NextDeclarations]_vars


----------------------------------------------------------------------------
(* Specification SpecUI: the input loop of WasabiUI.  run_app calls         *)
(* handle_mouse_input and handle_key_input in turn until one of them        *)
(* returns an error; the mouse event, the key and the outcome of handle_url *)
(* come from outside.  input_url is a sequence of characters.               *)

\* the longest input_url (keys that would make it longer are not typed)
MaxUrlLen == 3

\* the Enter key (LF), and the backspace and delete keys
Enter == "0x0A"
Backspace == "0x7F"
Delete == "0x08"

\* what Api::read_key returns
Keys == {"a", Enter, Backspace, Delete}

\* what Api::get_mouse_cursor_info reports: no event or no button, a click
\* outside the window, in the toolbar, in the content area, on a link
MouseEvents == {"none", "outside", "toolbar", "content", "link"}

\* the destination of the only link of the page
LinkUrl == <<"l">>

\* the outcomes of handle_url
HandleUrlResults == {"Ok", "Err"}

\* WasabiUI::start_navigation seen from its caller: the destination is
\* handed to handle_url, whose outcome decides whether the caller goes on
\* (the page built from the response is the subject of specification Spec)
start_navigation(u, destination) == [u EXCEPT !.destination = {destination}]

\* WasabiUI::handle_mouse_input
HandleMouseInput ==
    /\ pc = "mouse"
    /\ \E event \in MouseEvents, result \in HandleUrlResults :
           LET seen == [ui EXCEPT !.key = {}, !.destination = {}]
           IN IF event \in {"none", "outside"}
              THEN /\ ui' = seen
                   /\ pc' = "key"
              ELSE IF event = "toolbar"
              THEN /\ ui' = [seen EXCEPT !.input_url = <<>>,
                                         !.input_mode = "Editing"]
                   /\ pc' = "key"
              ELSE IF event = "content"
              THEN /\ ui' = [seen EXCEPT !.input_mode = "Normal"]
                   /\ pc' = "key"
              ELSE /\ ui' = start_navigation(
                                [seen EXCEPT !.input_mode = "Normal",
                                             !.input_url = LinkUrl],
                                LinkUrl)
                   /\ pc' = IF result = "Ok" THEN "key" ELSE "stopped"
    /\ UNCHANGED <<http, js>>
    /\ UNCHANGED <<mode, original_insertion_mode, stack_of_open_elements,
                   dom, token, consumed, chars_only, cssom, layout, root,
                   display_items, css_parser>>

\* the second `if` of the Editing arm: backspace and delete pop a character
\* of a non-empty input_url, every other case pushes the key
edit_input_url(input_url, c) ==
    IF c \in {Backspace, Delete} /\ input_url # <<>>
    THEN Front(input_url)
    ELSE Append(input_url, c)

\* WasabiUI::handle_key_input
HandleKeyInput ==
    /\ pc = "key"
    /\ \E key \in {{}} \cup {{c} : c \in Keys}, result \in HandleUrlResults :
           LET seen == [ui EXCEPT !.key = key, !.destination = {}]
           IN IF ui.input_mode = "Normal" \/ key = {}
              THEN /\ ui' = seen
                   /\ pc' = "mouse"
              ELSE \E c \in key :
                   IF c = Enter /\ result = "Err"
                   THEN /\ ui' = start_navigation(seen, ui.input_url)
                        /\ pc' = "stopped"
                   ELSE LET entered ==
                                IF c = Enter
                                THEN [start_navigation(seen, ui.input_url)
                                         EXCEPT !.input_url = <<>>,
                                                !.input_mode = "Normal"]
                                ELSE seen
                            edited == edit_input_url(entered.input_url, c)
                        IN /\ Len(edited) <= MaxUrlLen
                           /\ ui' = [entered EXCEPT !.input_url = edited]
                           /\ pc' = "mouse"
    /\ UNCHANGED <<http, js>>
    /\ UNCHANGED <<mode, original_insertion_mode, stack_of_open_elements,
                   dom, token, consumed, chars_only, cssom, layout, root,
                   display_items, css_parser>>

InitUI ==
    /\ pc = "mouse"
    /\ mode = "Initial"
    /\ original_insertion_mode = "Initial"
    /\ stack_of_open_elements = <<>>
    /\ dom = WindowNew
    /\ token = NoToken
    /\ consumed = 0
    /\ chars_only = TRUE
    /\ PageNew
    /\ AppNew

NextUI ==
    \/ HandleMouseInput
    \/ HandleKeyInput

SpecUI == InitUI /\ [][NextUI]_vars


----------------------------------------------------------------------------
(* Specification SpecHandleUrl: one call of handle_url.  Each turn of its   *)
(* loop parses the url and sends one GET; what Url::parse and the server    *)
(* answer comes from outside, so the server may redirect for ever.  The     *)
(* loop is sequential code: a turn that can be taken is taken.              *)

\* the urls a call starts with and a Location header names
Urls == {"a", "b", "c"}

\* the responses of HttpClient::get: a status code and the Location header,
\* if there is one
Responses == [status_code : {200, 302}, location : {{}} \cup {{u} : u \in Urls}]

\* the outcomes of Url::parse and of the conversion of the port to u16
ParseResults == {"Ok", "Err", "PortNotU16"}

\* the number of requests from which a redirect is not followed any more
REDIRECT_LIMIT == 5

\* the same test one request later
follows_redirect_once_more(get_count, response) ==
    get_count < REDIRECT_LIMIT + 1 /\ response.status_code = 302

\* `get_count < 5 && response.status_code() == 302`
follows_redirect(get_count, response) ==
    get_count < REDIRECT_LIMIT /\ response.status_code = 302

\* one turn of the loop of handle_url
HandleUrlTurn ==
    /\ pc = "requesting"
    /\ \E parsed \in ParseResults, answer \in {{}} \cup {{r} : r \in Responses} :
           IF parsed = "Err"
           THEN /\ pc' = "failed"
                /\ http' = http
           ELSE IF parsed = "PortNotU16"
           THEN /\ pc' = "panicked"
                /\ http' = [http EXCEPT !.get_count = @ + 1]
           ELSE IF answer = {}
           THEN /\ pc' = "failed"
                /\ http' = [http EXCEPT !.get_count = @ + 1]
           ELSE \E response \in answer :
                LET sent == [http EXCEPT !.get_count = @ + 1,
                                         !.received = {response}]
                IN IF /\ follows_redirect(sent.get_count, response)
                      /\ response.location # {}
                   THEN /\ pc' = "requesting"
                        /\ http' = [sent EXCEPT
                                       !.url = Unwrap(response.location)]
                   ELSE /\ pc' = "returned"
                        /\ http' = [sent EXCEPT !.result = {response}]
    /\ UNCHANGED <<ui, js>>
    /\ UNCHANGED <<mode, original_insertion_mode, stack_of_open_elements,
                   dom, token, consumed, chars_only, cssom, layout, root,
                   display_items, css_parser>>

InitHandleUrl ==
    /\ pc = "requesting"
    /\ mode = "Initial"
    /\ original_insertion_mode = "Initial"
    /\ stack_of_open_elements = <<>>
    /\ dom = WindowNew
    /\ token = NoToken
    /\ consumed = 0
    /\ chars_only = TRUE
    /\ PageNew
    /\ ui = WasabiUINew
    /\ js = JsRuntimeNew
    /\ \E url \in Urls : http = [HandleUrlNew EXCEPT !.url = url]

NextHandleUrl == HandleUrlTurn

SpecHandleUrl ==
    InitHandleUrl /\ [][NextHandleUrl]_vars /\ WF_vars(NextHandleUrl)


----------------------------------------------------------------------------
(* Specification SpecJs: JsRuntime evaluating statements.  js.env is the    *)
(* chain of Environments from the one of JsRuntime::new (the first) to the  *)
(* one statements are evaluated in (the last); the outer of an Environment  *)
(* is the one before it.  An Environment is its VariableMap: a sequence of  *)
(* pairs of a name and an Option of a value.                                *)

\* the deepest chain of Environments (calls nested deeper are not made)
MaxScopes == 3
\* the most variables of one Environment
MaxVariables == 2

\* the identifiers and the numeric literals of the programs
JsNames == {"x", "y"}
JsValues == {1, 2}

\* Environment::get_variable from the i-th Environment of the chain: the
\* value of the first variable of that name, else that of the outer one
RECURSIVE get_variable(_, _, _)
get_variable(env, i, name) ==
    LET found == {k \in 1..Len(env[i]) : env[i][k][1] = name}
    IN IF found # {}
       THEN env[i][CHOOSE k \in found : \A j \in found : k <= j][2]
       ELSE IF i > 1 THEN get_variable(env, i - 1, name)
       ELSE None

\* Environment::update_variable on the i-th Environment of the chain: the
\* first variable of that name in it is removed and pushed with the value
update_variable(env, i, name, value) ==
    LET found == {k \in 1..Len(env[i]) : env[i][k][1] = name}
    IN IF found = {} THEN env
       ELSE LET first == CHOOSE k \in found : \A j \in found : k <= j
            IN [env EXCEPT ![i] =
                   Append(SubSeq(env[i], 1, first - 1)
                              \o SubSeq(env[i], first + 1, Len(env[i])),
                          <<name, value>>)]

\* the parts of the state that JsRuntime does not touch
JsOnly ==
    /\ pc' = pc
    /\ UNCHANGED <<ui, http>>
    /\ UNCHANGED <<mode, original_insertion_mode, stack_of_open_elements,
                   dom, token, consumed, chars_only, cssom, layout, root,
                   display_items, css_parser>>

\* eval of `var name = value;`: add_variable on the current Environment
VariableDeclarator ==
    /\ pc = "executing"
    /\ Len(Last(js.env)) < MaxVariables
    /\ \E name \in JsNames, value \in JsValues :
           js' = [env |-> [js.env EXCEPT ![Len(js.env)] =
                               Append(@, <<name, Some(value)>>)],
                  statement |-> {[type |-> "VariableDeclarator",
                                  name |-> name, value |-> value]}]
    /\ JsOnly

\* eval of `name = value;`: update_variable on the current Environment
AssignmentExpression ==
    /\ pc = "executing"
    /\ \E name \in JsNames, value \in JsValues :
           js' = [env |-> update_variable(js.env, Len(js.env), name,
                                          Some(value)),
                  statement |-> {[type |-> "AssignmentExpression",
                                  name |-> name, value |-> value]}]
    /\ JsOnly

\* eval of a call of a function without parameters, up to its body: a new
\* Environment whose outer is the current one
CallExpression ==
    /\ pc = "executing"
    /\ Len(js.env) < MaxScopes
    /\ js' = [env |-> Append(js.env, <<>>), statement |-> {}]
    /\ JsOnly

\* the body of the function has been evaluated: its Environment is dropped
CallReturns ==
    /\ pc = "executing"
    /\ Len(js.env) > 1
    /\ js' = [env |-> Front(js.env), statement |-> {}]
    /\ JsOnly

InitJs ==
    /\ pc = "executing"
    /\ mode = "Initial"
    /\ original_insertion_mode = "Initial"
    /\ stack_of_open_elements = <<>>
    /\ dom = WindowNew
    /\ token = NoToken
    /\ consumed = 0
    /\ chars_only = TRUE
    /\ PageNew
    /\ AppNew

NextJs ==
    \/ VariableDeclarator
    \/ AssignmentExpression
    \/ CallExpression
    \/ CallReturns

SpecJs == InitJs /\ [][NextJs]_vars

----------------------------------------------------------------------------
(* Vocabulary of the properties.  The operators read a tree through its    *)
(* first_child and next_sibling links, the DOM and the layout tree alike.  *)

Range(s) == {s[i] : i \in 1..Len(s)}

\* a node and its later siblings, in order
RECURSIVE Siblings(_, _)
Siblings(t, n) ==
    IF n = NIL THEN <<>> ELSE <<n>> \o Siblings(t, t[n].next_sibling)

\* the children of a node, in order
Children(t, n) == Siblings(t, t[n].first_child)

\* the nodes of the tree hanging from n: n, its later siblings, and what is
\* below them
RECURSIVE Reach(_, _)
Reach(t, n) ==
    IF n = NIL THEN {}
    ELSE {n} \cup Reach(t, t[n].first_child) \cup Reach(t, t[n].next_sibling)

\* a node and its descendants
Subtree(t, n) == {n} \cup Reach(t, t[n].first_child)

\* the nodes of the DOM, and the objects of the layout tree
DomNodes == Reach(dom, Document)
LayoutObjects == Reach(layout, root)

\* the layout object whose child n is, NIL for the root and its siblings
LayoutParent(n) ==
    IF \E m \in LayoutObjects : n \in Range(Children(layout, m))
    THEN CHOOSE m \in LayoutObjects : n \in Range(Children(layout, m))
    ELSE NIL

\* the node resolves to display:none under the style sheet of the page
\* (display is not inherited: the parent's style plays no part)
Suppressed(n) ==
    resolved_style(dom, n, NIL, cssom, <<>>).display = "DisplayNone"

\* the nodes of the DOM that are suppressed or below a suppressed node
Excised == UNION {Subtree(dom, h) : h \in {n \in DomNodes : Suppressed(n)}}

LaidOut == pc \in {"laid_out", "painted"}
Returned == pc \in {"parsed", "laid_out", "painted"}

----------------------------------------------------------------------------
(* Properties of the layout of a body (specification SpecBody).            *)

\* C1: the layout tree holds no object for a DOM node that resolves to
\* display:none, nor for a descendant of such a node, and no display item
\* is painted for one of them.
C1_NoneSubtreeExcised ==
    LaidOut =>
        /\ LayoutObjects \cap Excised = {}
        /\ \A i \in 1..Len(display_items) : display_items[i].of \notin Excised

\* a suppressed element with a child and a later sibling that is painted
C1_Witness ==
    /\ pc = "painted"
    /\ \E h \in DomNodes :
           /\ Suppressed(h)
           /\ dom[h].first_child # NIL
           /\ \E i \in 1..Len(display_items) :
                  display_items[i].of
                      \in Range(Siblings(dom, dom[h].next_sibling))

\* C2: the layout children of the object built from a DOM node are the DOM
\* children of the node that do not resolve to display:none, in DOM order.
C2_ChildrenInDomOrder ==
    LaidOut =>
        \A n \in LayoutObjects :
            Children(layout, n)
                = SelectSeq(Children(dom, n), LAMBDA c : ~Suppressed(c))

\* a suppressed child between two children that survive
C2_Witness ==
    /\ LaidOut
    /\ \E n \in LayoutObjects :
           LET cs == Children(dom, n) IN
           \E i, j, k \in 1..Len(cs) :
               /\ i < j /\ j < k
               /\ ~Suppressed(cs[i]) /\ Suppressed(cs[j]) /\ ~Suppressed(cs[k])
               /\ Children(layout, n) # <<>>

\* C9: after the size pass the width of a Block is the width of its parent
\* in the layout tree (of the content area for the root), whatever the kind
\* of the parent.
C9_BlockWidthIsParentWidth ==
    LaidOut =>
        \A n \in LayoutObjects :
            layout[n].kind = "Block" =>
                layout[n].size.width =
                    IF LayoutParent(n) = NIL THEN CONTENT_AREA_WIDTH
                    ELSE layout[LayoutParent(n)].size.width

\* the heights of the children cs[i..j] of an object
ChildHeight(cs, i) == layout[cs[i]].size.height
IsBlock(cs, i) == i \in 1..Len(cs) /\ layout[cs[i]].kind = "Block"

\* the sum of the heights of the children whose index is in S
RECURSIVE SumOfHeights(_, _)
SumOfHeights(cs, S) ==
    IF S = {} THEN 0
    ELSE LET i == CHOOSE i \in S : TRUE
         IN ChildHeight(cs, i) + SumOfHeights(cs, S \ {i})

\* the runs of consecutive Inline/Text children: the pairs <<i, j>> of the
\* first and the last index of a run
Runs(cs) ==
    {<<i, j>> \in (1..Len(cs)) \X (1..Len(cs)) :
        /\ i <= j
        /\ \A k \in i..j : ~IsBlock(cs, k)
        /\ (i = 1 \/ IsBlock(cs, i - 1))
        /\ (j = Len(cs) \/ IsBlock(cs, j + 1))}

\* what a run may add to the height under the statement "a child counts if
\* a Block sibling is immediately before or after it, a run contributing a
\* single height": the height of a member next to a Block, or of both such
\* members, or of any member when no Block is next to the run
RunHeights(cs, run) ==
    LET i == run[1]
        j == run[2]
        beside == {k \in {i, j} : IsBlock(cs, k - 1) \/ IsBlock(cs, k + 1)}
    IN IF beside = {} THEN {ChildHeight(cs, k) : k \in i..j}
       ELSE {ChildHeight(cs, k) : k \in beside}
                \cup {SumOfHeights(cs, beside)}

\* the sums of one height of each run of R, added to the numbers of H
RECURSIVE AddRuns(_, _, _)
AddRuns(cs, H, R) ==
    IF R = {} THEN H
    ELSE LET run == CHOOSE run \in R : TRUE
         IN AddRuns(cs, {h + r : h \in H, r \in RunHeights(cs, run)},
                    R \ {run})

----------------------------------------------------------------------------
(* Properties of the cascade (specification SpecCascade).                  *)

\* the element LayoutView::new starts from
BodyRoot == get_target_element_node(dom, Document, "body")

Properties == {"background-color", "color", "display"}

\* the field of ComputedStyle a property sets
Field(property) ==
    CASE property = "background-color" -> "background_color"
      [] property = "color" -> "color"
      [] property = "display" -> "display"

\* the cascade takes the value of the declaration: an identifier, or a hash
\* token for the two colours
Takes(declaration) ==
    \/ declaration.value.type = "Ident"
    \/ /\ declaration.value.type = "HashToken"
       /\ declaration.property \in {"background-color", "color"}

\* the value a declaration gives its property; a token that is no value of
\* the property gives none of the values a style holds
GivenValue(declaration) ==
    LET value == declaration.value IN
    IF ~Takes(declaration) THEN "invalid"
    ELSE CASE declaration.property = "display" -> display_from_str(value.v)
           [] declaration.property = "color" ->
                  IF value.type = "Ident" THEN from_name(value.v, "black")
                  ELSE from_code(value.v, "black")
           [] declaration.property = "background-color" ->
                  IF value.type = "Ident" THEN from_name(value.v, "white")
                  ELSE from_code(value.v, "white")

Max(S) == CHOOSE i \in S : \A j \in S : j <= i

\* the declarations of a property in a rule, and those the cascade takes
DeclarationsOf(rule, property) ==
    {i \in 1..Len(rule.declarations) :
        rule.declarations[i].property = property}
TakenDeclarationsOf(rule, property) ==
    {i \in DeclarationsOf(rule, property) : Takes(rule.declarations[i])}

\* the rules of the sheet that match the body and declare the property
MatchingRules(property) ==
    {i \in 1..Len(cssom) :
        /\ is_node_selected(dom, BodyRoot, cssom[i].selector)
        /\ DeclarationsOf(cssom[i], property) # {}}
\* those with a declaration of the property that the cascade takes
TakenRules(property) ==
    {i \in MatchingRules(property) :
        TakenDeclarationsOf(cssom[i], property) # {}}

\* the computed value of the body: that of its layout object; a body
\* without a layout object has display none, and its colours are not seen
Computed(property) ==
    IF root # NIL THEN layout[root].style[Field(property)]
    ELSE IF property = "display" THEN "DisplayNone"
    ELSE "unseen"

\* C3 (as stated): when two rules match a node and declare the same
\* property, the computed value of the node is the one given by the later
\* rule, whatever the kinds of the two selectors.
C3_LaterRuleWins ==
    LaidOut =>
        \A property \in Properties :
            Cardinality(MatchingRules(property)) >= 2 =>
                LET rule == cssom[Max(MatchingRules(property))]
                    last == Max(DeclarationsOf(rule, property))
                IN Computed(property)
                       \in {GivenValue(rule.declarations[last]), "unseen"}

\* C3 (amended): when two rules match a node and declare the same
\* property, the computed value of the node is the one given by the latest
\* of the rules whose value for the property is an identifier (or a hash
\* token, for a colour), whatever the kinds of the selectors; a rule with a
\* value of another kind leaves the value as it was.
C3_LaterTakenRuleWins ==
    LaidOut =>
        \A property \in Properties :
            (/\ Cardinality(MatchingRules(property)) >= 2
             /\ TakenRules(property) # {}) =>
                LET rule == cssom[Max(TakenRules(property))]
                    last == Max(TakenDeclarationsOf(rule, property))
                IN Computed(property)
                       \in {GivenValue(rule.declarations[last]), "unseen"}

\* an id rule followed by a type rule for the same property, with another
\* value: the body has the value of the type rule
C3_Witness ==
    /\ LaidOut
    /\ root # NIL
    /\ Len(cssom) = 2
    /\ cssom[1].selector.kind = "IdSelector"
    /\ cssom[2].selector.kind = "TypeSelector"
    /\ \E property \in Properties :
           /\ TakenRules(property) = {1, 2}
           /\ GivenValue(cssom[1].declarations[1])
                  # GivenValue(cssom[2].declarations[1])
           /\ Computed(property) = GivenValue(cssom[2].declarations[1])

----------------------------------------------------------------------------
(* Properties of the whole pipeline (specification Spec).                  *)

\* C4: if the body element resolves to display:none, the root of the layout
\* view is None and paint gives an empty display list, for every DOM the
\* tree constructor produces.
C4_HiddenBodyHasNoLayout ==
    (LaidOut /\ BodyRoot # NIL /\ Suppressed(BodyRoot)) =>
        /\ root = NIL
        /\ display_items = <<>>

IsElement(n, kind) == dom[n].kind = "Element" /\ dom[n].ekind = kind

\* C5: once construct_tree has returned, if an element was inserted the
\* first child of the Document is an html element; a head element of the
\* DOM is the first child of html; a body element of the DOM is the next
\* sibling of head.
C5_HtmlHeadBodyOrder ==
    Returned =>
        LET html == dom[Document].first_child IN
        /\ (\E n \in 2..Len(dom) : dom[n].kind = "Element") =>
               (html # NIL /\ IsElement(html, "html"))
        /\ \A n \in DomNodes :
               IsElement(n, "head") => dom[html].first_child = n
        /\ \A n \in DomNodes :
               IsElement(n, "body") =>
                   /\ dom[html].first_child # NIL
                   /\ IsElement(dom[html].first_child, "head")
                   /\ dom[dom[html].first_child].next_sibling = n

\* a DOM with a head, a body and an element in the body
C5_Witness ==
    /\ Returned
    /\ \E h, b \in DomNodes :
           /\ IsElement(h, "head")
           /\ IsElement(b, "body")
           /\ dom[b].first_child # NIL

\* C6: once construct_tree has returned, the Document has no child other
\* than one html element.
C6_DocumentHasOnlyHtml ==
    Returned =>
        \/ Children(dom, Document) = <<>>
        \/ /\ Len(Children(dom, Document)) = 1
           /\ IsElement(dom[Document].first_child, "html")

\* C7: on a token stream of Char tokens followed by the end of the input,
\* construct_tree returns a Document without children and LayoutView::new
\* gives a root of None.
C7_CharsGiveEmptyDocument ==
    (Returned /\ chars_only) =>
        /\ Len(dom) = 1
        /\ dom[Document].first_child = NIL
        /\ LaidOut => root = NIL

\* the layout view of a stream of two Char tokens or more
C7_Witness ==
    /\ LaidOut
    /\ chars_only
    /\ consumed >= 3

\* C8: construct_tree never aborts: pop_until is reached only with an
\* element of the kind on the stack, and no assert! fails.
C8_NeverAborts == pc # "panicked"

----------------------------------------------------------------------------
(* Properties of the painting of a text (specification SpecText).          *)

\* the display items that the paint of the layout object n made, in order
ItemsOf(n) == SelectSeq(display_items, LAMBDA item : item.of = n)

\* the width compute_size gives the text of the layout object n before it
\* compares it with the content area
ComputedWidth(n) ==
    CHAR_WIDTH * FontRatio(layout[n].style.font_size)
        * Len(dom[layout[n].node].text)

\* the lines are the text cut from left to right: a line is at most
\* max_index characters of what is left, and where what is left has a
\* space among its first max_index characters the cut falls on a space
RECURSIVE BrokenAtSpaces(_, _, _)
BrokenAtSpaces(rest, lines, max_index) ==
    IF Len(lines) = 1 THEN lines[1] = rest
    ELSE LET line == Head(lines) IN
         /\ Len(line) <= max_index
         /\ Len(line) < Len(rest)
         /\ line = SubSeq(rest, 1, Len(line))
         /\ (\E k \in 1..max_index : rest[k] = " ")
                => rest[Len(line) + 1] = " "
         /\ BrokenAtSpaces(trim(SubSeq(rest, Len(line) + 1, Len(rest))),
                           Tail(lines), max_index)

\* C11: a Text layout object whose computed width (character width x size
\* ratio x character count) exceeds the content-area width is painted as
\* at least two Text display items, broken at a space when there is one
\* before the column limit, the y offset growing by one line height from
\* each line to the next.
C11_WideTextIsSplit ==
    pc = "painted" =>
        \A n \in LayoutObjects :
            (layout[n].kind = "Text" /\ ComputedWidth(n) > CONTENT_AREA_WIDTH)
            => LET items == ItemsOf(n)
                   char_width ==
                       CHAR_WIDTH * FontRatio(layout[n].style.font_size)
               IN /\ Len(items) >= 2
                  /\ \A i \in 1..Len(items) : items[i].type = "Text"
                  /\ \A i \in 1..(Len(items) - 1) :
                         items[i + 1].layout_point.y
                             = items[i].layout_point.y
                                   + CHAR_HEIGHT_WITH_PADDING
                  /\ BrokenAtSpaces(
                         plain_text(dom[layout[n].node].text),
                         [i \in 1..Len(items) |-> items[i].text],
                         (WINDOW_WIDTH + WINDOW_PADDING) \div char_width)

----------------------------------------------------------------------------
(* Properties of the CSS parser (specification SpecCss).                   *)

\* parse_stylesheet has returned, panicked or got caught in a loop
StyleParsed == pc \in {"sheet", "panicked", "looping"}

\* the style content is made of rules only
OnlyRules ==
    \A i \in 1..Len(css_parser.content) : css_parser.content[i].rule # None

\* the rules the ordinary rules of the style content stand for, in order
RulesOfContent ==
    LET rules == SelectSeq(css_parser.content, LAMBDA item : item.rule # None)
    IN [i \in 1..Len(rules) |-> Unwrap(rules[i].rule)]

\* C12: on a style text made of N well-formed rules `selector { property:
\* value; ... }`, parse_stylesheet returns exactly N rules in source order,
\* each with its declarations in source order and the value token of a
\* declaration as the tokenizer made it.
C12_RulesInSourceOrder ==
    (StyleParsed /\ OnlyRules)
        => /\ pc = "sheet"
           /\ Len(cssom) = Len(css_parser.content)
           /\ cssom = RulesOfContent

\* two rules were parsed, the second with two declarations that differ
C12_Witness ==
    /\ pc = "sheet"
    /\ OnlyRules
    /\ Len(cssom) = 2
    /\ Len(cssom[2].declarations) = 2
    /\ cssom[2].declarations[1] # cssom[2].declarations[2]
    /\ cssom[2].declarations[2].value.type = "Number"

\* the index in css_parser.t of the first token of the i-th rule or at-rule
\* of the style content
ItemStart(i) ==
    Len(Tokenize(StyleText(SubSeq(css_parser.content, 1, i - 1)),
                 1, <<>>).out) + 1

\* C13: consume_selector maps a bare identifier to TypeSelector(name) and
\* discards a `:pseudo` part up to the next `{`; it maps a `.` followed by
\* an identifier to ClassSelector(name), and a hash token `#name` to
\* IdSelector(name), the leading `#` removed.  On the first token of each
\* rule of the style content it returns the selector the text stands for
\* and stops on the `{` of the rule.
C13_SelectorOfText ==
    \A i \in 1..Len(css_parser.content) :
        css_parser.content[i].rule # None
        => LET r == consume_selector(css_parser.t, ItemStart(i))
           IN /\ r.status = "ok"
              /\ r.out = Unwrap(css_parser.content[i].rule).selector
              /\ Peeks(css_parser.t, r.pos, "OpenCurly")

\* a style of an id rule and a rule with a pseudo-class was parsed
C13_Witness ==
    /\ pc = "sheet"
    /\ OnlyRules
    /\ Len(cssom) = 2
    /\ cssom[1].selector = Selector("IdSelector", <<"i", "d">>)
    /\ css_parser.t[1] = HashToken(<<"#", "i", "d">>)
    /\ cssom[2].selector = Selector("TypeSelector", <<"a">>)
    /\ \E k \in 1..Len(css_parser.t) :
           css_parser.t[k] = Ident(<<"h", "o", "v", "e", "r">>)

\* C14: at-rules contribute no rules to the sheet: on a style text that
\* mixes at-rules (with their blocks) and ordinary rules, parse_stylesheet
\* returns exactly the rules of the ordinary rules, each with its own
\* selector and declarations.
C14_AtRulesGiveNoRule ==
    (StyleParsed /\ ~OnlyRules)
        => /\ pc = "sheet"
           /\ cssom = RulesOfContent

----------------------------------------------------------------------------
(* Properties of the CSS parser on any token stream (specification         *)
(* SpecCssTokens).                                                         *)

\* C15: parse_stylesheet terminates on every finite token stream, whether or
\* not each selector is followed by a `{` and each block is closed: the call
\* is never caught in a loop that the exhausted stream cannot end.
C15_ParseTerminates == pc # "looping"

----------------------------------------------------------------------------
(* Properties of the display list (specification SpecBody).                *)

\* the objects of a layout tree in pre-order: a node, what is below it,
\* then its later siblings and what is below them
RECURSIVE PreOrder(_, _)
PreOrder(t, n) ==
    IF n = NIL THEN <<>>
    ELSE <<n>> \o PreOrder(t, t[n].first_child)
               \o PreOrder(t, t[n].next_sibling)

\* what the paint of one layout object adds to the display list: one Rect
\* with its point and size for a Block, nothing for an Inline, the lines
\* of a Text
PaintOutput(n) ==
    CASE layout[n].kind = "Block" ->
             <<Rect(n, layout[n].style, layout[n].point, layout[n].size)>>
      [] layout[n].kind = "Inline" -> <<>>
      [] OTHER -> paint(dom, layout, n)

\* C16: the display list that paint() returns is the concatenation, in
\* pre-order of the layout tree (a node, then the subtree of its first
\* child, then the subtree of its next sibling), of the paint output of
\* each layout object; a Block gives exactly one Rect with its computed
\* point and size, an Inline gives nothing.
C16_DisplayListInPreOrder ==
    pc = "painted" =>
        LET order == PreOrder(layout, root)
        IN display_items
               = Concat([i \in 1..Len(order) |-> PaintOutput(order[i])])

\* a display list with the item of a Block that has both a child and a
\* later sibling that paint something, in a tree with an Inline
C16_Witness ==
    /\ pc = "painted"
    /\ \E n \in LayoutObjects :
           /\ layout[n].kind = "Block"
           /\ layout[n].first_child # NIL
           /\ layout[n].next_sibling # NIL
           /\ \E i, j, k \in 1..Len(display_items) :
                  /\ i < j /\ j < k
                  /\ display_items[i].of = n
                  /\ display_items[j].of
                         \in Subtree(layout, layout[n].first_child)
                  /\ display_items[k].of
                         \in Reach(layout, layout[n].next_sibling)
    /\ \E m \in LayoutObjects : layout[m].kind = "Inline"

----------------------------------------------------------------------------
(* Properties of the insertion of characters (specification Spec).  A run  *)
(* of character tokens is a sequence of turns of the loop of               *)
(* construct_tree in InBody or in Text mode on a Char token: such a turn   *)
(* leaves the mode and, but for insert_char, the stack alone, so what      *)
(* holds of every turn holds along a run.                                  *)

\* a turn of the loop on a character token in InBody or in Text mode
CharTurn ==
    /\ pc = "parsing"
    /\ mode \in {"InBody", "Text"}
    /\ token.type = "Char"

\* the current node is a Text node
CurrentIsText(d, stack) == stack # <<>> /\ d[Last(stack)].kind = "Text"

\* the character c was added at the end of the Text node that is current
\* after the turn, which is the Text node that was current before the turn
\* if there was one
CharInCurrentText(c) ==
    /\ CurrentIsText(dom', stack_of_open_elements')
    /\ Last(dom'[Last(stack_of_open_elements')].text) = c
    /\ CurrentIsText(dom, stack_of_open_elements) =>
           /\ stack_of_open_elements' = stack_of_open_elements
           /\ dom'[Last(stack_of_open_elements)].text
                  = Append(dom[Last(stack_of_open_elements)].text, c)

\* C17 as stated: every character of a run of character tokens in InBody
\* or Text mode ends up, in order, in one and the same Text node (each
\* character is added at the end of the current Text node, the one that
\* holds the characters of the run before it).
C17_RunInOneTextNode ==
    [][CharTurn => CharInCurrentText(token.c)]_vars

\* C17: the characters of a run that are inserted all end up, in order, in
\* one and the same Text node; a space or newline that arrives while the
\* current node is not a Text node, and any character that arrives while
\* the stack of open elements is empty, is not inserted and changes
\* neither the tree nor the stack.
C17_InsertedRunInOneTextNode ==
    [][CharTurn =>
           IF stack_of_open_elements = <<>>
              \/ (~CurrentIsText(dom, stack_of_open_elements)
                  /\ token.c \in {" ", "\n"})
           THEN UNCHANGED <<dom, stack_of_open_elements>>
           ELSE /\ CharInCurrentText(token.c)
                /\ \A n \in DOMAIN dom :
                       dom[n].kind = "Text" /\ n # Last(stack_of_open_elements)
                           => dom'[n].text = dom[n].text
                /\ Cardinality({n \in DOMAIN dom' : dom'[n].kind = "Text"})
                       = Cardinality({n \in DOMAIN dom : dom[n].kind = "Text"})
                           + (IF CurrentIsText(dom, stack_of_open_elements)
                              THEN 0 ELSE 1)]_vars

\* a run of three character tokens of a style element, the second a space,
\* was inserted: the three are the text of the current node
C17_Witness ==
    /\ mode = "Text"
    /\ CurrentIsText(dom, stack_of_open_elements)
    /\ dom[Last(stack_of_open_elements)].text = <<"x", " ", "x">>
    /\ Cardinality({n \in DOMAIN dom : dom[n].kind = "Text"}) = 1


\* a turn of the loop of construct_tree on a space or newline token
WhitespaceTurn == pc = "parsing" /\ IsSpace(token)

\* C18: no Text node of the DOM begins with a space or a newline; a turn
\* of construct_tree on a space or newline token adds no node to the DOM,
\* and changes neither the DOM nor the stack of open elements when the
\* current node is not a Text node.
C18_WhitespaceInsertsNothing ==
    /\ [](\A n \in DOMAIN dom :
              dom[n].kind = "Text" =>
                  dom[n].text # <<>> /\ dom[n].text[1] \notin {" ", "\n"})
    /\ [][WhitespaceTurn =>
              /\ Len(dom') = Len(dom)
              /\ ~CurrentIsText(dom, stack_of_open_elements)
                     => UNCHANGED <<dom, stack_of_open_elements>>]_vars

\* a space arrives in the body after a tag, the current node being an
\* element, in a DOM that has a Text node
C18_Witness ==
    /\ pc = "parsing" /\ mode = "InBody"
    /\ IsSpace(token)
    /\ stack_of_open_elements # <<>>
    /\ dom[Last(stack_of_open_elements)].kind = "Element"
    /\ \E n \in DOMAIN dom : dom[n].kind = "Text"

----------------------------------------------------------------------------
(* Properties of the style and script elements of the head (specification  *)
(* Spec).                                                                  *)

RawTextKinds == {"style", "script"}

\* the place in the stack of the style or script element opened last
\* (0 if none is open)
OpenRawText(d, stack) ==
    LET open == {i \in 1..Len(stack) : element_kind(d, stack[i]) \in RawTextKinds}
    IN IF open = {} THEN 0 ELSE CHOOSE i \in open : \A j \in open : j <= i

\* a style or script start tag in InHead: the element is inserted below
\* the current node and pushed, and the mode is Text with InHead saved
RawTextOpened ==
    Parsing("InHead") /\ token.type = "StartTag" /\ token.tag \in RawTextKinds
        => /\ mode' = "Text" /\ original_insertion_mode' = "InHead"
           /\ Len(dom') = Len(dom) + 1
           /\ stack_of_open_elements'
                  = Append(stack_of_open_elements, Len(dom'))
           /\ element_kind(dom', Len(dom')) = token.tag
           /\ stack_of_open_elements # <<>> =>
                  /\ dom'[Len(dom')].parent = Last(stack_of_open_elements)
                  /\ Last(Children(dom', Last(stack_of_open_elements)))
                         = Len(dom')

\* a character that is not dropped, in Text mode with the element as the
\* current node, becomes the text child of the element
RawTextFilled ==
    /\ Parsing("Text") /\ token.type = "Char" /\ ~IsSpace(token)
    /\ stack_of_open_elements # <<>>
    /\ element_kind(dom, Last(stack_of_open_elements)) \in RawTextKinds
    => /\ Children(dom', Last(stack_of_open_elements))
              = Append(Children(dom, Last(stack_of_open_elements)), Len(dom'))
       /\ dom'[Len(dom')].kind = "Text"
       /\ dom'[Len(dom')].text = <<token.c>>
       /\ mode' = "Text"

\* the end tag of the style or script element opened last: the element is
\* popped and the mode is InHead with head as the current node
RawTextClosed ==
    LET i == OpenRawText(dom, stack_of_open_elements) IN
    /\ Parsing("Text") /\ token.type = "EndTag"
    /\ i # 0
    /\ element_kind(dom, stack_of_open_elements[i]) = token.tag
    => /\ mode' = "InHead"
       /\ stack_of_open_elements' = SubSeq(stack_of_open_elements, 1, i - 1)
       /\ stack_of_open_elements' # <<>>
       /\ element_kind(dom, Last(stack_of_open_elements')) = "head"

\* C19: on a style or script start tag in InHead the element is inserted
\* and the mode becomes Text with InHead as the original mode; the
\* characters that follow become the text child of the element; on the
\* matching end tag the element is popped and the mode is InHead again
\* with head as the current node.
C19_StyleInHead ==
    [][RawTextOpened /\ RawTextFilled /\ RawTextClosed]_vars

----------------------------------------------------------------------------
(* Properties of the insertion of a node (specification SpecBody).         *)

\* the node below which insert_element and insert_char insert
CurrentNode ==
    IF stack_of_open_elements # <<>> THEN Last(stack_of_open_elements)
    ELSE Document

\* a turn of the loop of construct_tree that creates a node
NodeInserted == pc = "parsing" /\ Len(dom') = Len(dom) + 1

\* C20: a turn of construct_tree that inserts a node (insert_element, or
\* insert_char creating a Text node) appends it as the last child of the
\* current node: the children of the current node are those it had, in
\* their order, followed by the new node, and every node that was
\* reachable from the document is still reachable.
C20_InsertAppendsLastChild ==
    [][NodeInserted =>
           /\ Children(dom', CurrentNode)
                  = Append(Children(dom, CurrentNode), Len(dom'))
           /\ Subtree(dom, Document) \subseteq Subtree(dom', Document)]_vars

----------------------------------------------------------------------------
(* Properties of the shape of the DOM (specification SpecBody).            *)

\* C21: in every DOM built by construct_tree a Text node has no children
\* and no node has a Text node as parent: an element that follows
\* character data is a sibling of the text inside the enclosing element.
C21_TextNodesAreLeaves ==
    \A n \in DOMAIN dom :
        dom[n].kind = "Text" =>
            /\ dom[n].first_child = NIL
            /\ \A m \in DOMAIN dom : dom[m].parent # n

----------------------------------------------------------------------------
(* Properties of the position pass (specification SpecBody).               *)

\* C22: after the position pass every Block layout object has the x of
\* its layout-tree parent, whatever siblings precede it.
C22_BlockTakesParentX ==
    \A n \in LayoutObjects :
        layout[n].kind = "Block" /\ LayoutParent(n) # NIL
            => layout[n].point.x = layout[LayoutParent(n)].point.x

----------------------------------------------------------------------------
(* Properties of the links of the layout tree (specification SpecBody).    *)

\* C24: every layout object other than the root has as parent link the
\* layout object whose child list contains it, and its computed style is
\* the one defaulting gives against the computed style of that parent, for
\* first children and later siblings alike.
C24_ParentIsLayoutParent ==
    \A n \in LayoutObjects :
        LayoutParent(n) # NIL =>
            /\ layout[n].parent = LayoutParent(n)
            /\ layout[n].style
                   = resolved_style(dom, layout[n].node, LayoutParent(n),
                                    cssom, layout)

----------------------------------------------------------------------------
(* Agreement of the size pass and the painting of a text (specification    *)
(* SpecText).                                                              *)

\* C23: for every Text layout object the number of Text display items
\* that paint emits is the line count compute_size used for its height:
\* height = number of items x size ratio x line height with padding.
C23_ItemsAreSizedLines ==
    pc = "painted" =>
        \A n \in LayoutObjects :
            layout[n].kind = "Text" =>
                layout[n].size.height
                    = Len(ItemsOf(n)) * FontRatio(layout[n].style.font_size)
                          * CHAR_HEIGHT_WITH_PADDING

----------------------------------------------------------------------------
(* Properties of the CSS tokenizer (specification SpecCssInput).           *)

\* C25: no call of CssTokenizer::next reads the input past its last
\* character: on every input over the supported characters each call
\* returns a token or None, also when the input ends inside an
\* identifier, a hash, a quoted string or after an `@`.
C25_TokenizerStaysInInput == pc # "panicked"

----------------------------------------------------------------------------
(* Termination of construct_tree (specification SpecTermination).          *)

\* C26: construct_tree terminates on every token stream: the loop is left
\* (the window is returned, or the thread panics) after finitely many
\* turns, so no cycle of turns that do not consume the token exists.
C26_ConstructTreeTerminates == <>(pc \notin {"new", "parsing"})

\* the start tag p, first token of the input, was dispatched again in
\* BeforeHtml, BeforeHead, InHead, AfterHead and InBody, each of which but
\* the last synthesized an element or changed the mode, and was consumed
C26_Witness ==
    /\ pc = "parsing" /\ mode = "InBody"
    /\ consumed = 2
    /\ Len(dom) = 5
    /\ element_kind(dom, 5) = "p"
    /\ stack_of_open_elements = <<2, 4, 5>>

----------------------------------------------------------------------------
(* Properties of the arms of construct_tree (specification Spec).          *)

\* the token in hand was consumed: the next token was fetched
TokenConsumed == consumed' = consumed + 1 \/ token'.type = "None"

\* the token in hand is kept for the next turn
TokenKept == token' = token /\ consumed' = consumed /\ pc' = "parsing"

\* C27: in InBody an end tag html received while a body element is on the
\* stack of open elements closes body and html (neither is on the stack
\* afterwards) and moves the mode to AfterBody; when no body is open the
\* token is ignored: it is consumed and nothing else changes.
C27_HtmlEndTagClosesBody ==
    [][Parsing("InBody") /\ token.type = "EndTag" /\ token.tag = "html" =>
           IF contain_in_stack(dom, stack_of_open_elements, "body")
           THEN /\ mode' = "AfterBody"
                /\ ~contain_in_stack(dom, stack_of_open_elements', "body")
                /\ ~contain_in_stack(dom, stack_of_open_elements', "html")
                /\ dom' = dom
           ELSE /\ TokenConsumed
                /\ UNCHANGED <<mode, stack_of_open_elements, dom>>]_vars


\* C28: in BeforeHtml every token other than a space or newline, a start
\* tag html or the end of the input (any end tag included) makes an html
\* element be inserted and the mode become BeforeHead, the token being
\* kept for the next turn.
C28_BeforeHtmlSynthesizesHtml ==
    [][/\ Parsing("BeforeHtml")
       /\ ~IsSpace(token)
       /\ ~(token.type = "StartTag" /\ token.tag = "html")
       /\ ~IsEnd(token)
       => /\ mode' = "BeforeHead"
          /\ Len(dom') = Len(dom) + 1
          /\ element_kind(dom', Len(dom')) = "html"
          /\ stack_of_open_elements'
                 = Append(stack_of_open_elements, Len(dom'))
          /\ TokenKept]_vars


\* C29 as stated: in Text mode every token other than a character, the
\* end of the input, an end tag style or an end tag script restores the
\* original insertion mode and is kept, so that the same token is handled
\* again in the restored mode.
C29_TextRestoresModeKeepingToken ==
    [][/\ Parsing("Text")
       /\ token.type # "Char"
       /\ ~IsEnd(token)
       /\ ~(token.type = "EndTag" /\ token.tag \in RawTextKinds)
       => /\ mode' = original_insertion_mode
          /\ TokenKept
          /\ UNCHANGED <<dom, stack_of_open_elements>>]_vars

\* C29: in Text mode a start tag restores the original insertion mode and
\* is kept, so that it is handled again in the restored mode; an end tag
\* other than style and script restores the original insertion mode and
\* is consumed; neither changes the DOM or the stack of open elements.
C29_TextRestoresMode ==
    [][Parsing("Text") =>
           /\ token.type = "StartTag" =>
                  /\ mode' = original_insertion_mode
                  /\ TokenKept
                  /\ UNCHANGED <<dom, stack_of_open_elements>>
           /\ token.type = "EndTag" /\ token.tag \notin RawTextKinds =>
                  /\ mode' = original_insertion_mode
                  /\ TokenConsumed
                  /\ UNCHANGED <<dom, stack_of_open_elements>>]_vars

\* the start tag p, second token of the input after a start tag style,
\* was kept by Text mode: it is the token in hand in InHead, the style
\* element being the current node
C29_Witness ==
    /\ pc = "parsing" /\ mode = "InHead"
    /\ consumed = 2
    /\ token = StartTag("p", <<>>)
    /\ stack_of_open_elements # <<>>
    /\ element_kind(dom, Last(stack_of_open_elements)) = "style"

----------------------------------------------------------------------------
(* Properties of the declaration list (specification SpecDeclarations).    *)

\* the index of the first `}` of the stream, 0 if it has none
FirstCloseCurly ==
    LET close == {i \in 1..Len(css_parser.t) :
                      css_parser.t[i].type = "CloseCurly"}
    IN IF close = {} THEN 0 ELSE CHOOSE i \in close : \A j \in close : i <= j

\* C30: the first `}` after the `{` of a rule ends the declaration list of
\* the rule: consume_list_of_declarations returns with the stream just
\* after that `}`, and the declarations of the rule are those of the
\* tokens before it.
C30_FirstCloseCurlyEndsList ==
    pc = "rule" /\ FirstCloseCurly # 0 =>
        /\ css_parser.pos = FirstCloseCurly + 1
        /\ LET before == consume_list_of_declarations(
                             SubSeq(css_parser.t, 1, FirstCloseCurly), 1,
                             <<>>)
           IN before.status = "ok"
              /\ cssom[1].declarations = before.out

----------------------------------------------------------------------------
(* Properties of the parser on any token stream (specification             *)
(* SpecCssTokens).                                                         *)

\* the stream begins with a selector token that is not an identifier, a
\* `.`, a hash token or an at-keyword, followed by the `{` of its block
UnknownSelectorRule ==
    /\ Len(css_parser.t) >= 2
    /\ css_parser.t[1].type \notin {"Ident", "HashToken", "AtKeyword",
                                    "OpenCurly"}
    /\ css_parser.t[1] # Delim(".")
    /\ css_parser.t[2].type = "OpenCurly"

\* C31: for a selector token that is not an identifier, a `.` followed by
\* an identifier or a hash token, consume_selector returns UnknownSelector
\* without aborting, and the rule that carries it gets its declaration
\* block parsed: the sheet begins with a rule of UnknownSelector whose
\* declarations are those of the block.
C31_UnknownSelectorRuleIsParsed ==
    pc # "style" /\ UnknownSelectorRule =>
        /\ pc = "sheet"
        /\ cssom # <<>>
        /\ cssom[1].selector = UnknownSelector
        /\ LET block == consume_list_of_declarations(css_parser.t, 3, <<>>)
           IN block.status = "ok" /\ cssom[1].declarations = block.out


\* the index of the first character from pos on that is not a space or a
\* newline (past the end if there is none)
RECURSIVE NextVisible(_, _)
NextVisible(input, pos) ==
    IF pos <= Len(input) /\ input[pos] \in {" ", "\n"}
    THEN NextVisible(input, pos + 1)
    ELSE pos

\* the longest run of characters of the set from pos on
RECURSIVE RunOf(_, _, _)
RunOf(input, pos, set) ==
    IF pos <= Len(input) /\ input[pos] \in set
    THEN <<input[pos]>> \o RunOf(input, pos + 1, set)
    ELSE <<>>

\* the call of next() reads an `@`
ReadsAt ==
    /\ pc = "tokenizing"
    /\ NextVisible(css_parser.content, css_parser.pos)
           <= Len(css_parser.content)
    /\ css_parser.content[NextVisible(css_parser.content, css_parser.pos)]
           = "@"

\* C32: a call of next() that reads an `@` followed by fewer than three
\* alphabetic characters returns Delim('@'), and one that reads an `@`
\* followed by at least three returns AtKeyword(name), name being the
\* identifier after the `@`, wherever the `@` stands in the input, the
\* end of the input included.
C32_AtKeywordOrDelim ==
    [][ReadsAt =>
           LET at == NextVisible(css_parser.content, css_parser.pos)
               letters == RunOf(css_parser.content, at + 1, Alphabetic)
               name == RunOf(css_parser.content, at + 1,
                             Alphabetic \cup Digits \cup {"_", "-"})
           IN /\ pc' = "tokenizing"
              /\ css_parser'.t
                     = Append(css_parser.t,
                              IF Len(letters) < 3 THEN Delim("@")
                              ELSE AtKeyword(name))]_vars


\* the layout object whose next sibling n is, NIL if n is a first child
\* or the root
PreviousSibling(n) ==
    IF \E s \in LayoutObjects : layout[s].next_sibling = n
    THEN CHOOSE s \in LayoutObjects : layout[s].next_sibling = n
    ELSE NIL

\* C33: after the position pass a layout object that is a Block, or whose
\* previous sibling is a Block, has the y of its previous sibling plus the
\* height of that sibling, and a first child has the y of its parent.
C33_SiblingsStackVertically ==
    \A n \in LayoutObjects :
        LET s == PreviousSibling(n)
            p == LayoutParent(n)
        IN /\ s # NIL /\ (layout[n].kind = "Block" \/ layout[s].kind = "Block")
              => layout[n].point.y = layout[s].point.y + layout[s].size.height
           /\ p # NIL /\ layout[p].first_child = n
              => layout[n].point.y = layout[p].point.y

\* a Block placed beneath a sibling that has a height, and a first child
\* placed at the y of a parent that is not at the top of the page
C33_Witness ==
    \E n, m \in LayoutObjects :
        /\ layout[n].kind = "Block"
        /\ PreviousSibling(n) # NIL
        /\ layout[PreviousSibling(n)].size.height > 0
        /\ LayoutParent(m) # NIL
        /\ layout[LayoutParent(m)].first_child = m
        /\ layout[m].point.y > 0


\* C34: in the laid-out tree every child of a Block lies vertically
\* inside it: child.y >= parent.y and child.y + child.height is at most
\* parent.y + parent.height.
C34_ChildrenInsideBlock ==
    \A p \in LayoutObjects :
        layout[p].kind = "Block"
        => \A c \in Range(Children(layout, p)) :
               /\ layout[c].point.y >= layout[p].point.y
               /\ layout[c].point.y + layout[c].size.height
                      <= layout[p].point.y + layout[p].size.height


\* the elements of kind k created so far
ElementsOf(k) ==
    {n \in 1..Len(dom) : dom[n].kind = "Element" /\ dom[n].ekind = k}

\* the mode in which the element of kind k is inserted
ModeOf(k) ==
    CASE k = "html" -> "BeforeHtml"
      [] k = "head" -> "BeforeHead"
      [] k = "body" -> "AfterHead"

\* the token is a start tag of an element that is in the DOM already
LaterStartTag ==
    /\ pc = "parsing"
    /\ token.type = "StartTag"
    /\ token.tag \in {"html", "head", "body"}
    /\ ElementsOf(token.tag) # {}

\* at most one html, head and body after the step, and no way back to the
\* mode of an element that exists
OneOfEach ==
    \A k \in {"html", "head", "body"} :
        /\ Cardinality(ElementsOf(k)') <= 1
        /\ ElementsOf(k) # {} => mode' # ModeOf(k)

\* C35 as stated: construct_tree creates at most one html, one head and
\* one body element; BeforeHtml, BeforeHead and AfterHead are not entered
\* again once their element is inserted; and a turn of the loop on a later
\* <html>, <head> or <body> start tag adds no node to the DOM.
C35_LaterStartTagAddsNoNode ==
    [][OneOfEach /\ (LaterStartTag => Len(dom') = Len(dom))]_vars

\* C35 amended: at most one html, one head and one body element; the three
\* modes are not entered again once their element is inserted; a turn on a
\* later <html>, <head> or <body> start tag adds no element of that kind
\* (the head and the body that are still missing are synthesized on it).
C35_OneHtmlHeadBody ==
    [][OneOfEach
       /\ (LaterStartTag
              => \A k \in {token.tag} : ElementsOf(k)' = ElementsOf(k))]_vars

\* html, head and body exist and a start tag of one of them is dispatched
C35_Witness ==
    /\ LaterStartTag
    /\ \A k \in {"html", "head", "body"} : ElementsOf(k) # {}
    /\ mode = "InBody"


\* C36: at every step of construct_tree the stack of open elements is an
\* ancestor chain of the DOM: the parent of each entry is the entry
\* directly beneath it and the parent of the bottom entry is the Document.
C36_StackIsAncestorChain ==
    \A i \in 1..Len(stack_of_open_elements) :
        dom[stack_of_open_elements[i]].parent
            = IF i = 1 THEN Document ELSE stack_of_open_elements[i - 1]

\* the stack has been pushed and popped: a text node is open three levels
\* below an element that was closed before
C36_Witness ==
    /\ Len(stack_of_open_elements) >= 3
    /\ dom[Last(stack_of_open_elements)].kind = "Text"
    /\ \E n \in 1..Len(dom) :
           /\ dom[n].kind = "Element"
           /\ n \notin Range(stack_of_open_elements)


\* C37: in every DOM built by construct_tree previous_sibling is the
\* inverse of next_sibling: whenever a.next_sibling is b, b.previous_sibling
\* is a, for element and text nodes alike.
C37_PreviousIsInverseOfNext ==
    \A a \in 1..Len(dom) :
        dom[a].next_sibling # NIL
        => dom[dom[a].next_sibling].previous_sibling = a


\* handle_key_input reads the Enter key while the UI is in Editing mode
EnterInEditing ==
    /\ pc = "key"
    /\ ui.input_mode = "Editing"
    /\ ui'.key = {Enter}

\* C38: in Editing mode a key press of Enter starts a navigation to the
\* current input_url and leaves the UI in Normal mode with an empty
\* input_url.
C38_EnterNavigatesAndResets ==
    [][EnterInEditing
       => /\ ui'.destination = {ui.input_url}
          /\ ui'.input_mode = "Normal"
          /\ ui'.input_url = <<>>]_vars


\* the turn follows a redirect: the loop goes on with another url
RedirectFollowed == pc = "requesting" /\ pc' = "requesting"

\* C39: handle_url follows a 302 redirect only while fewer than five
\* requests have been made; a call sends at most five GETs, what it returns
\* is the last response received, and the loop ends on every server, also
\* on one that redirects for ever.
C39_AtMostFiveRequests ==
    /\ [](http.get_count <= 5)
    /\ [][RedirectFollowed
          => /\ http'.get_count < 5
             /\ \E r \in http'.received :
                    r.status_code = 302 /\ r.location = {http'.url}]_vars
    /\ [](pc = "returned" => http.result # {} /\ http.result = http.received)
    /\ <>(pc # "requesting")

\* the fifth response of a server that keeps redirecting is returned
C39_Witness ==
    /\ pc = "returned"
    /\ http.get_count = 5
    /\ \E r \in http.result : r.status_code = 302 /\ r.location # {}


\* the number of variables held by the Environments of the chain
RECURSIVE num_variables(_)
num_variables(env) ==
    IF env = <<>> THEN 0 ELSE Len(env[1]) + num_variables(Tail(env))

\* the step evaluates an assignment to a variable that is declared in the
\* current Environment or in one of its outer ones
AssignsDeclared(name, value) ==
    /\ pc = "executing"
    /\ js'.statement = {[type |-> "AssignmentExpression",
                         name |-> name, value |-> value]}
    /\ get_variable(js.env, Len(js.env), name) # None

\* C40: after an assignment `x = v` to an already declared variable x,
\* reading x yields v and the number of variables held by the environments
\* is unchanged, in whichever scope of the chain x was declared.
C40_AssignmentIsRead ==
    [][\A name \in JsNames, value \in JsValues :
           AssignsDeclared(name, value)
           => /\ get_variable(js'.env, Len(js'.env), name) = Some(value)
              /\ num_variables(js'.env) = num_variables(js.env)]_vars

====
